---- MODULE Spec2Model ----
(***************************************************************************)
(* INS/GPS post-processor of ninja-scan-light (tool/INS_GPS.cpp, carried   *)
(* in src/tool/navigation/GPS_SP.h): option processing of main(), the      *)
(* packet sort buffer of loop() and the fusion controller                   *)
(* INS_GPS_NAV<INS_GPS>::Helper.                                            *)
(*                                                                         *)
(* Time is the packets' itow in whole seconds.  The filter itself (INS,    *)
(* Kalman filter) is represented by its clock nav_time (the time of the    *)
(* seeding GPS fix plus every interval handed to nav.update) and by the    *)
(* list of calls the controller makes on it while one packet is processed. *)
(* Time stamps are the default ITOW stamps (TimeStampGenerator<float>).    *)
(***************************************************************************)
EXTENDS Integers, Sequences, FiniteSets, TLC

VARIABLES
  pc,                     \* position in main(): "options", "loop", "flush", "done", "exit",
                          \* and "terminate" (std::terminate has been called)
  n_args,                 \* arguments of the command line consumed so far
  n_logs,                 \* processors.size()
  switched_on,            \* history: strategy options given with a true value
  ins_gps_sync_strategy,  \* Options::ins_gps_sync_strategy
  dump_update,            \* Options::dump_update
  dump_correct,           \* Options::dump_correct
  initial_attitude_mode,  \* Options::initial_attitude.mode
  initial_attitude_yaw_deg, \* Options::initial_attitude.yaw_deg
  yaw_correct_with_mag_speed, \* Options::yaw_correct_with_mag_when_speed_less_than_ms
  invoked,                \* packets handed to the update target so far
  delivered,              \* history: packets handed to the update target, per itow
  applied,                \* history: packets applied to the NAV, per itow
  packet_pool,            \* buffer_t::packet_pool
  packets,                \* loop counter of buffer_t::sort_and_apply
  status,                 \* Helper::status
  recent_a,               \* Helper::recent_a.buf
  recent_m,               \* Helper::recent_m.buf
  nav_time,               \* clock of the filter *nav.ins_gps
  header,                 \* INS_NAVData::mode and INS_NAVData::itow of *nav.ins_gps
  last,                   \* the latest NAV::update: packet, calls on the filter,
                          \* values assigned to status, initial attitude,
                          \* snapshots read by updated_items, records
  last_stamp,             \* history: time stamp of the record emitted before those of `last`
  reduce_1pps_sync_error, \* GlobalOptions::reduce_1pps_sync_error
  use_magnet,             \* Options::use_magnet
  start_gpst,             \* GlobalOptions::start_gpst, as an itow
  end_gpst,               \* GlobalOptions::end_gpst, as an itow
  a_handler,              \* StreamProcessor::a_handler: packet_latest.itow, and the
                          \* history whether a packet has been handed on
  m_handler,              \* StreamProcessor::m_handler: the same
  g_handler,              \* StreamProcessor::g_handler: packet_latest.itow, itow_ms_0x0102,
                          \* itow_ms_0x0112, week_number, status.time_stamp
  page,                   \* the page that process_1page has read last
  forwarded,              \* packets handed to the update target for that page
  in_good,                \* FALSE once process_1page has returned false
  heap,                   \* the blocks of Array2D_Dense: rows, columns, values, *ref
  matrices,               \* the Matrix objects in scope: storage and view
  linked,                 \* history: pairs of objects one of which was made from the
                          \* other (or from an object linked to it) by a shallow copy
  last_op,                \* the latest operation on the matrices
  n_writes,               \* number of element writes so far
  hessenberg_run,         \* the call of Matrix::hessenberg in progress: its loop
                          \* variables and the accesses it has made
  mean_run,               \* the averaging of the angular rate for a G packet with a
                          \* lever arm: the A buffer, the samples summed, the divisor
  pvt,                    \* the call of solve_user_pvt in progress: its arguments,
                          \* its locals and the result
  lifetimes               \* every element buffer, Array2D_Dense object and Matrix
                          \* object made so far, with its pointers and its lifetime

call_vars == << hessenberg_run, mean_run, pvt, lifetimes >>

matrix_vars == << heap, matrices, linked, last_op, n_writes, call_vars >>

stream_vars == << reduce_1pps_sync_error, use_magnet, start_gpst, end_gpst, a_handler,
                  m_handler, g_handler, page, forwarded, in_good >>

vars == << pc, n_args, n_logs, switched_on, ins_gps_sync_strategy, dump_update,
           dump_correct, initial_attitude_mode, initial_attitude_yaw_deg,
           yaw_correct_with_mag_speed, invoked, delivered, applied,
           packet_pool, packets, status, recent_a, recent_m, nav_time, header,
           last, last_stamp, stream_vars, matrix_vars >>

-----------------------------------------------------------------------------
(* Bounds of the model.  The code's sizes are scaled down: the sort buffer  *)
(* flushes 0x100 packets when it holds 0x200, recent_a keeps 0x100 packets, *)
(* recent_m 0x10, and 0x10 A packets are wanted before an estimated         *)
(* initial attitude.                                                        *)

MaxPackets == 4

PoolLimit == 3

SortWindow == 2

RecentAMax == 3

RecentMMax == 2

MinAPackets == 2

MaxSnapshots == 2

MaxArgs == 3

MaxPages == 5

\* a yaw angle given by the user, in degrees
GivenYawDeg == 30

\* resolution of the stream processor's time: ticks per second
TicksPerSecond == 2

\* size of the matrices that are constructed
MatrixRows == 1

MatrixColumns == 2

\* blocks of elements that can be allocated at a time
MaxStorages == 2

\* element writes of a run
MaxWrites == 2

\* largest number of rows and of columns of a matrix that is inverted
MaxOrder == 2

\* size of the matrix the views are taken of
ViewRows == 2

ViewColumns == 3

-----------------------------------------------------------------------------
(* Program constants *)

UNINITIALIZED == 0

JUST_INITIALIZED == 1

TIME_UPDATED == 2

MEASUREMENT_UPDATED == 3

WAITING_UPDATE == 4

NOT_GIVEN == 0

YAW_ONLY == 1

YAW_PITCH == 2

FULL_GIVEN == 3

init_acc_2d == 20

init_acc_v == 10

cont_acc_2d == 100

INTERVAL_THRESHOLD == 10

back_propagate_depth == 1

yaw_correct_with_mag_when_speed_less_than_ms == 5

one_week == 60 * 60 * 24 * 7

NoTime == 0 - 1

Strategies == {"OFFLINE", "BACK_PROPAGATION", "REALTIME"}

-----------------------------------------------------------------------------
(* Packets *)

\* itow values: the last second of a week, the first two of the next one, and
\* one INTERVAL_THRESHOLD after the week's start
Itows == {one_week - 1, 0, 1, INTERVAL_THRESHOLD}

\* (sigma_2d, sigma_height) of a GPS solution, on and next to the three thresholds
Sigmas == { <<init_acc_2d, init_acc_v>>, <<init_acc_2d + 1, init_acc_v>>,
            <<init_acc_2d, init_acc_v + 1>>, <<cont_acc_2d, init_acc_v>> }

A_Packet == [type : {"A"}, itow : Itows, sigma_2d : {0}, sigma_height : {0}, speed2 : {0}]

\* speed2 is v_n^2 + v_e^2 of the solution (a receiver at rest); the accurate
\* solution comes at two times, the inaccurate ones at the week's start
G_Packet == { [type |-> "G", itow |-> ts[1], sigma_2d |-> ts[2][1],
               sigma_height |-> ts[2][2], speed2 |-> 0] :
              ts \in ({0} \X Sigmas) \cup {<<1, <<init_acc_2d, init_acc_v>> >>} }

M_Packet == [type : {"M"}, itow : {0, 1}, sigma_2d : {0}, sigma_height : {0}, speed2 : {0}]

TimePacket == [type : {"T"}, itow : {1}, sigma_2d : {0}, sigma_height : {0}, speed2 : {0}]

Packet == A_Packet \cup G_Packet \cup M_Packet \cup TimePacket

NoPacket == [type |-> "none", itow |-> 0, sigma_2d |-> 0, sigma_height |-> 0, speed2 |-> 0]

interval(p_itow, another_itow) == another_itow - p_itow

\* delta - floor(delta / one_week + 0.5) * one_week
interval_rollover(p_itow, another_itow) ==
  LET delta == another_itow - p_itow
  IN  delta - ((2 * delta + one_week) \div (2 * one_week)) * one_week

compare_rollover(a, b) == interval_rollover(a.itow, b.itow) > 0

-----------------------------------------------------------------------------
(* The sort buffer's ordering *)

\* position at which stable_sort places x among the sorted s: behind every
\* element that is not later than x
RECURSIVE InsertSorted(_, _)
InsertSorted(s, x) ==
  IF s = << >> THEN << x >>
  ELSE IF compare_rollover(x, s[Len(s)])
       THEN Append(InsertSorted(SubSeq(s, 1, Len(s) - 1), x), s[Len(s)])
       ELSE Append(s, x)

RECURSIVE stable_sort(_)
stable_sort(s) ==
  IF s = << >> THEN << >>
  ELSE InsertSorted(stable_sort(SubSeq(s, 1, Len(s) - 1)), s[Len(s)])

-----------------------------------------------------------------------------
(* The controller, INS_GPS_NAV<INS_GPS>::Helper.  Its operations map a      *)
(* record h = [status, recent_a, recent_m, nav_time, header, calls,         *)
(* assigned, attitude] to the record after the operation; calls lists the   *)
(* calls made on the filter, assigned the values assigned to status, in     *)
(* order, and attitude is the initial attitude handed to the filter.        *)

Call(op, arg, itow) == [op |-> op, arg |-> arg, itow |-> itow]

\* a push that evicts the newest packet of a full buffer
PacketBuffer_push_back_evicted(buf, max_size, packet) ==
  IF Len(buf) >= max_size THEN Append(SubSeq(buf, 1, Len(buf) - 1), packet)
  ELSE Append(buf, packet)

PacketBuffer_push(buf, max_size, packet) ==
  IF Len(buf) >= max_size THEN Append(Tail(buf), packet) ELSE Append(buf, packet)

min_a_packets_for_init(mode) == IF mode = FULL_GIVEN THEN 1 ELSE MinAPackets

recent_a_max_size(mode) ==
  IF min_a_packets_for_init(mode) > RecentAMax THEN min_a_packets_for_init(mode)
  ELSE RecentAMax

\* status = value
set_status(h, value) == [h EXCEPT !.status = value, !.assigned = Append(@, value)]

set_header(h, mode, itow) == [h EXCEPT !.header = [mode |-> mode, itow |-> itow]]

set_header_mode(h, mode) == [h EXCEPT !.header.mode = mode]

\* a before_any_update that leaves the status alone
before_any_update_idle(h) == h

before_any_update(h) ==
  IF h.status >= JUST_INITIALIZED THEN set_status(h, WAITING_UPDATE) ELSE h

\* a compass that corrects the yaw with the sample at once
compass_correcting(h, packet) ==
  [h EXCEPT !.recent_m = PacketBuffer_push(@, RecentMMax, packet),
            !.calls = Append(@, Call("correct_yaw", 0, packet.itow))]

\* Helper::compass
compass(h, packet) ==
  [h EXCEPT !.recent_m = PacketBuffer_push(@, RecentMMax, packet)]

\* nav.update(accel, omega, deltaT): the filter advances by deltaT
nav_update(h, a_packet, deltaT) ==
  [h EXCEPT !.nav_time = (@ + deltaT) % one_week,
            !.calls = Append(@, Call("update", deltaT, a_packet.itow))]

\* time_update(a_packet, deltaT) without the upper limit on the interval
time_update_interval_unchecked(h, a_packet, deltaT) ==
  LET dT == IF deltaT <= -(one_week \div 2) THEN deltaT + one_week ELSE deltaT
  IN  IF dT <= 0 THEN h
      ELSE set_status(nav_update(h, a_packet, dT), TIME_UPDATED)

\* Helper::time_update(const A_Packet &, float_t deltaT)
time_update_interval(h, a_packet, deltaT) ==
  LET dT == IF deltaT <= -(one_week \div 2) THEN deltaT + one_week ELSE deltaT
  IN  IF (dT <= 0) \/ (dT >= INTERVAL_THRESHOLD) THEN h
      ELSE set_status(nav_update(h, a_packet, dT), TIME_UPDATED)

\* time_update(a_packet) that looks at the buffer instead of the status
time_update_unguarded(h, a_packet, mode) ==
  LET h1 == IF h.recent_a # << >>
            THEN set_header(
                   time_update_interval(h, a_packet,
                     interval(h.recent_a[Len(h.recent_a)].itow, a_packet.itow)),
                   "TU", a_packet.itow)
            ELSE h
  IN  [h1 EXCEPT !.recent_a = PacketBuffer_push(@, recent_a_max_size(mode), a_packet)]

\* Helper::time_update(const A_Packet &)
time_update(h, a_packet, mode) ==
  LET h1 == IF h.status >= JUST_INITIALIZED
            THEN set_header(
                   time_update_interval(h, a_packet,
                     interval(h.recent_a[Len(h.recent_a)].itow, a_packet.itow)),
                   "TU", a_packet.itow)
            ELSE h
  IN  [h1 EXCEPT !.recent_a = PacketBuffer_push(@, recent_a_max_size(mode), a_packet)]

\* index of the last packet of recent_a that is not later than g_packet
\* (0 when there is none): where the reverse scan stops
RECURSIVE reverse_scan(_, _, _)
reverse_scan(buf, g_packet, i) ==
  IF i = 0 THEN 0
  ELSE IF interval_rollover(g_packet.itow, buf[i].itow) <= 0 THEN i
       ELSE reverse_scan(buf, g_packet, i - 1)

\* the forward loop of time_update_after_initialization, from index i on,
\* prev_itow being the itow of *packet
RECURSIVE replay(_, _, _)
replay(h, i, prev_itow) ==
  IF i > Len(h.recent_a) THEN h
  ELSE replay(time_update_interval(h, h.recent_a[i],
                                   interval(prev_itow, h.recent_a[i].itow)),
              i + 1, h.recent_a[i].itow)

\* time_update_after_initialization that replays recent_a from its begin
time_update_after_initialization_from_begin(h, g_packet) ==
  set_header(replay(h, 1, g_packet.itow), "MU", g_packet.itow)

time_update_after_initialization(h, g_packet) ==
  set_header(
    replay(h, reverse_scan(h.recent_a, g_packet, Len(h.recent_a)) + 1, g_packet.itow),
    "MU", g_packet.itow)

\* the angles handed to initAttitude: the yaw in degrees, given by the option
\* or estimated with the magnetometer; pitch and roll given or estimated
Attitude(yaw_from, yaw_deg, pitch_from, roll_from) ==
  [yaw_from |-> yaw_from, yaw_deg |-> yaw_deg, pitch_from |-> pitch_from,
   roll_from |-> roll_from]

NoAttitude == Attitude("", 0, "", "")

\* an initialization that prefers the magnetometer to the yaw of the user
initialize_compass_first(h, g_packet, mode) ==
  [set_status(h, JUST_INITIALIZED)
     EXCEPT !.nav_time = g_packet.itow,
            !.calls = Append(@, Call("initialize", 0, g_packet.itow)),
            !.attitude =
               Attitude(IF mode < FULL_GIVEN /\ h.recent_m # << >>
                        THEN "get_mag_yaw" ELSE "yaw_deg",
                        IF mode < FULL_GIVEN /\ h.recent_m # << >>
                        THEN 0 ELSE initial_attitude_yaw_deg,
                        IF mode < YAW_PITCH THEN "accel" ELSE "pitch_deg",
                        IF mode < FULL_GIVEN THEN "accel" ELSE "roll_deg")]

\* Helper::initialize: the filter is seeded with the GPS solution and the
\* initial attitude; the angles start as those of the options and the loop
\* replaces the roll, then the pitch, then the yaw by estimates
initialize(h, g_packet, mode) ==
  LET given == Attitude("yaw_deg", initial_attitude_yaw_deg, "pitch_deg", "roll_deg")
      roll == IF mode < FULL_GIVEN THEN [given EXCEPT !.roll_from = "accel"] ELSE given
      pitch == IF mode < FULL_GIVEN /\ ~(mode >= YAW_PITCH)
               THEN [roll EXCEPT !.pitch_from = "accel"] ELSE roll
      yaw == IF mode < FULL_GIVEN /\ ~(mode >= YAW_PITCH) /\ ~(mode >= YAW_ONLY)
                /\ h.recent_m # << >>
             THEN [pitch EXCEPT !.yaw_from = "get_mag_yaw", !.yaw_deg = 0] ELSE pitch
  IN  [set_status(h, JUST_INITIALIZED)
         EXCEPT !.nav_time = g_packet.itow,
                !.calls = Append(@, Call("initialize", 0, g_packet.itow)),
                !.attitude = yaw]

\* Helper::time_update_before_measurement_update, by the type of *nav.ins_gps
time_update_before_measurement_update(h, advanceT, strategy) ==
  IF strategy = "REALTIME" THEN h
  ELSE IF advanceT <= 0 THEN h
       ELSE time_update_interval(h, h.recent_a[Len(h.recent_a)], advanceT)

\* nav.correct(g_packet, gps_advance); h.singular tells that a matrix the
\* filter inverts in this correction has no inverse: Matrix::inverse throws
\* MatrixException("invert matrix not exist")
nav_correct(h, g_packet, gps_advance) ==
  IF h.singular
  THEN [h EXCEPT !.calls = Append(@, Call("correct", gps_advance, g_packet.itow)),
                 !.raised = TRUE]
  ELSE [h EXCEPT !.calls = Append(@, Call("correct", gps_advance, g_packet.itow))]

\* nav.correct_yaw(nav.get_mag_delta_yaw(get_mag(g_packet.itow), *nav.ins_gps))
nav_correct_yaw(h, g_packet) ==
  [h EXCEPT !.calls = Append(@, Call("correct_yaw", 0, g_packet.itow))]

\* a yaw compensation that takes place at the threshold speed as well
yaw_compensation_inclusive(h, g_packet) ==
  IF h.recent_m # << >>
     /\ yaw_correct_with_mag_speed > 0
     /\ g_packet.speed2 <= yaw_correct_with_mag_speed * yaw_correct_with_mag_speed
  THEN nav_correct_yaw(h, g_packet)
  ELSE h

\* the yaw compensation of measurement_update
yaw_compensation(h, g_packet) ==
  IF h.recent_m # << >>
     /\ yaw_correct_with_mag_speed > 0
     /\ g_packet.speed2 < yaw_correct_with_mag_speed * yaw_correct_with_mag_speed
  THEN nav_correct_yaw(h, g_packet)
  ELSE h

\* the initialization test without the vertical accuracy
init_gate_no_height(h, g_packet, mode) ==
  /\ Len(h.recent_a) >= min_a_packets_for_init(mode)
  /\ LET d == h.recent_a[1].itow - g_packet.itow
         abs == IF d < 0 THEN -d ELSE d
     IN  10 * abs < Len(h.recent_a)
  /\ g_packet.sigma_2d <= init_acc_2d

\* the condition under which an uninitialized controller initializes
init_gate(h, g_packet, mode) ==
  /\ Len(h.recent_a) >= min_a_packets_for_init(mode)
  /\ LET d == h.recent_a[1].itow - g_packet.itow
         abs == IF d < 0 THEN -d ELSE d
     IN  10 * abs < Len(h.recent_a)       \* abs < 0.1 * recent_a.buf.size()
  /\ g_packet.sigma_2d <= init_acc_2d
  /\ g_packet.sigma_height <= init_acc_v

\* the first test with > in place of >=
cont_gate_strict(g_packet) == g_packet.sigma_2d > cont_acc_2d

\* the first test of measurement_update: the solution is too inaccurate
cont_gate(g_packet) == g_packet.sigma_2d >= cont_acc_2d

\* Helper::measurement_update
measurement_update(h, g_packet, mode, strategy) ==
  IF cont_gate(g_packet) THEN h
  ELSE IF h.status >= JUST_INITIALIZED
  THEN LET gps_advance == interval(h.recent_a[Len(h.recent_a)].itow, g_packet.itow)
           h1 == time_update_before_measurement_update(h, gps_advance, strategy)
           h2 == nav_correct(h1, g_packet, gps_advance)
           h3 == yaw_compensation(h2, g_packet)
       IN  IF h2.raised THEN h2      \* no try block: the exception leaves the function
           ELSE set_header_mode(set_status(h3, MEASUREMENT_UPDATED), "MU")
  ELSE IF init_gate(h, g_packet, mode)
  THEN time_update_after_initialization(initialize(h, g_packet, mode), g_packet)
  ELSE h

-----------------------------------------------------------------------------
(* Output records *)

\* snapshots of INS_GPS_Back_Propagate, as their elapsedT_from_last_correct:
\* any list of values below and at back_propagate_depth
ElapsedT == {0, back_propagate_depth}

SnapshotLists == UNION { [1..k -> ElapsedT] : k \in 0..MaxSnapshots }

\* the loop of updated_items that does not stop at back_propagate_depth
RECURSIVE back_propagated_items_whole(_, _, _, _, _)
back_propagated_items_whole(snapshots, i, itow, du, dc) ==
  IF i > Len(snapshots) THEN << >>
  ELSE LET rest == back_propagated_items_whole(snapshots, i + 1, itow, du, dc)
       IN  IF i = 1
           THEN IF dc THEN << [mode |-> "BP_MU", itow |-> itow + snapshots[i]] >> \o rest
                ELSE rest
           ELSE IF du THEN << [mode |-> "BP_TU", itow |-> itow + snapshots[i]] >> \o rest
                ELSE rest

\* the loop of updated_items(const INS_GPS_Back_Propagate *), from index i
RECURSIVE back_propagated_items(_, _, _, _, _)
back_propagated_items(snapshots, i, itow, du, dc) ==
  IF i > Len(snapshots) THEN << >>
  ELSE IF snapshots[i] >= back_propagate_depth THEN << >>
  ELSE LET rest == back_propagated_items(snapshots, i + 1, itow, du, dc)
       IN  IF i = 1
           THEN IF dc THEN << [mode |-> "BP_MU", itow |-> itow + snapshots[i]] >> \o rest
                ELSE rest
           ELSE IF du THEN << [mode |-> "BP_TU", itow |-> itow + snapshots[i]] >> \o rest
                ELSE rest

\* Helper::updated_items(), by the type of *nav.ins_gps
updated_items(h, strategy, snapshots, du, dc) ==
  IF strategy = "BACK_PROPAGATION"
  THEN IF h.status = MEASUREMENT_UPDATED
       THEN back_propagated_items(snapshots, 1, h.recent_a[Len(h.recent_a)].itow, du, dc)
       ELSE << >>
  ELSE IF h.status = TIME_UPDATED
       THEN IF du THEN << h.header >> ELSE << >>
  ELSE IF h.status \in {JUST_INITIALIZED, MEASUREMENT_UPDATED}
       THEN IF dc THEN << h.header >> ELSE << >>
  ELSE << >>

\* the snapshots that updated_items reads: ins_gps->get_snapshots() is called
\* in back-propagation mode under case MEASUREMENT_UPDATED only
get_snapshots(h, packet, strategy, snapshots) ==
  IF strategy = "BACK_PROPAGATION" /\ packet.type # "T" /\ h.status = MEASUREMENT_UPDATED
  THEN snapshots ELSE << >>

\* INS_GPS_NAV::update, by packet type
NAV_update(h, packet, mode, strategy) ==
  IF packet.type = "A" THEN time_update(before_any_update(h), packet, mode)
  ELSE IF packet.type = "G"
       THEN measurement_update(before_any_update(h), packet, mode, strategy)
  ELSE IF packet.type = "M" THEN compass(before_any_update(h), packet)
  ELSE h

\* NAVDisplay::update and updated(): the records written for one packet
NAVDisplay_records(h, packet, strategy, snapshots, du, dc) ==
  IF packet.type = "T" THEN << >>
  ELSE updated_items(h, strategy, snapshots, du, dc)

-----------------------------------------------------------------------------
(* State *)

Helper == [status |-> status, recent_a |-> recent_a, recent_m |-> recent_m,
           nav_time |-> nav_time, header |-> header, calls |-> << >>,
           assigned |-> << >>, attitude |-> NoAttitude, singular |-> FALSE,
           raised |-> FALSE]

\* packet->apply(nav): one packet goes through NAVDisplay::update
Apply(packet, snapshots) ==
  \E h \in {NAV_update(Helper, packet, initial_attitude_mode, ins_gps_sync_strategy)} :
  \E out \in {NAVDisplay_records(h, packet, ins_gps_sync_strategy, snapshots,
                                 dump_update, dump_correct)} :
    /\ status' = h.status
    /\ recent_a' = h.recent_a
    /\ recent_m' = h.recent_m
    /\ nav_time' = h.nav_time
    /\ header' = h.header
    /\ last' = [packet |-> packet, calls |-> h.calls, assigned |-> h.assigned,
                attitude |-> h.attitude,
                snapshots |-> get_snapshots(h, packet, ins_gps_sync_strategy, snapshots),
                out |-> out, raised |-> h.raised]
    /\ applied' = [applied EXCEPT ![packet.itow] = @ + 1]
    /\ last_stamp' = IF last.out = << >> THEN last_stamp
                     ELSE last.out[Len(last.out)].itow

Deliver(packet) ==
  /\ invoked < MaxPackets
  /\ invoked' = invoked + 1
  /\ delivered' = [delivered EXCEPT ![packet.itow] = @ + 1]

\* the stream processor and the matrices are left alone
Stream_unchanged == UNCHANGED << stream_vars, matrix_vars >>

Options_unchanged == UNCHANGED << n_args, n_logs, switched_on, ins_gps_sync_strategy,
                                 dump_update, dump_correct, initial_attitude_mode,
                                 initial_attitude_yaw_deg, yaw_correct_with_mag_speed >>

Helper_unchanged == UNCHANGED << status, recent_a, recent_m, nav_time, header, last,
                                applied, last_stamp >>

SnapshotChoice == IF ins_gps_sync_strategy = "BACK_PROPAGATION" THEN SnapshotLists
                  ELSE { << >> }

-----------------------------------------------------------------------------
(* loop() *)

\* the test of buffer_t::sort_and_apply2
sort_and_apply2(pool) == Len(pool) >= PoolLimit

\* buffer_t::update: push_back, then sort_and_apply2 up to the sort
Update(packet) ==
  /\ pc = "loop"
  /\ ins_gps_sync_strategy # "REALTIME"
  /\ packets = 0
  /\ Deliver(packet)
  /\ LET pool == Append(packet_pool, packet)
     IN  IF sort_and_apply2(pool)
         THEN packet_pool' = stable_sort(pool) /\ packets' = SortWindow
         ELSE packet_pool' = pool /\ packets' = 0
  /\ UNCHANGED pc
  /\ Stream_unchanged
  /\ Options_unchanged
  /\ Helper_unchanged

\* one round of the loop of buffer_t::sort_and_apply
ApplyFront ==
  /\ pc \in {"loop", "flush"}
  /\ packets > 0
  /\ packet_pool # << >>
  /\ \E snapshots \in SnapshotChoice : Apply(Head(packet_pool), snapshots)
  /\ packet_pool' = Tail(packet_pool)
  /\ packets' = packets - 1
  /\ UNCHANGED << pc, invoked, delivered >>
  /\ Stream_unchanged
  /\ Options_unchanged

\* realtime mode: the stream processor updates the NAV itself
UpdateRealtime(packet) ==
  /\ pc = "loop"
  /\ ins_gps_sync_strategy = "REALTIME"
  /\ Deliver(packet)
  /\ Apply(packet, << >>)
  /\ UNCHANGED << pc, packet_pool, packets >>
  /\ Stream_unchanged
  /\ Options_unchanged

\* a destructor that applies nothing
flush_count_none(pool) == 0

\* ~buffer_t(): sort_and_apply(packet_pool.size())
flush_count(pool) == Len(pool)

\* process_1page() returns false: loop() returns and buffer is destroyed
EndOfStream ==
  /\ pc = "loop"
  /\ ins_gps_sync_strategy # "REALTIME"
  /\ packets = 0
  /\ packet_pool' = stable_sort(packet_pool)
  /\ packets' = flush_count(packet_pool)
  /\ pc' = "flush"
  /\ UNCHANGED << invoked, delivered >>
  /\ Stream_unchanged
  /\ Options_unchanged
  /\ Helper_unchanged

EndOfStreamRealtime ==
  /\ pc = "loop"
  /\ ins_gps_sync_strategy = "REALTIME"
  /\ pc' = "done"
  /\ UNCHANGED << invoked, delivered, packet_pool, packets >>
  /\ Stream_unchanged
  /\ Options_unchanged
  /\ Helper_unchanged

\* the destructor is through: main() returns 0
Return ==
  /\ pc = "flush"
  /\ packets = 0
  /\ pc' = "done"
  /\ UNCHANGED << invoked, delivered, packet_pool, packets >>
  /\ Stream_unchanged
  /\ Options_unchanged
  /\ Helper_unchanged

\* packet->apply(nav) for a G packet whose correction meets a matrix without
\* inverse: the MatrixException passes measurement_update, NAV::update,
\* NAVDisplay::update, buffer_t and loop(), none of which has a try block, and
\* leaves main(): std::terminate.  The records of the packet are not written.
ApplyRaised(packet) ==
  /\ packet.type = "G"
  /\ \E h \in {NAV_update([Helper EXCEPT !.singular = TRUE], packet,
                            initial_attitude_mode, ins_gps_sync_strategy)} :
       /\ h.raised
       /\ status' = h.status
       /\ recent_a' = h.recent_a
       /\ recent_m' = h.recent_m
       /\ nav_time' = h.nav_time
       /\ header' = h.header
       /\ last' = [packet |-> packet, calls |-> h.calls, assigned |-> h.assigned,
                   attitude |-> h.attitude, snapshots |-> << >>, out |-> << >>,
                   raised |-> TRUE]
  /\ last_stamp' = IF last.out = << >> THEN last_stamp
                   ELSE last.out[Len(last.out)].itow
  /\ pc' = "terminate"
  /\ UNCHANGED applied

\* the exception is raised within buffer_t::sort_and_apply (from update, or
\* from the destructor, which is noexcept)
ApplyFrontRaised ==
  /\ pc \in {"loop", "flush"}
  /\ packets > 0
  /\ packet_pool # << >>
  /\ ApplyRaised(Head(packet_pool))
  /\ UNCHANGED << packet_pool, packets, invoked, delivered >>
  /\ Stream_unchanged
  /\ Options_unchanged

\* the exception is raised within the realtime update
UpdateRealtimeRaised(packet) ==
  /\ pc = "loop"
  /\ ins_gps_sync_strategy = "REALTIME"
  /\ Deliver(packet)
  /\ ApplyRaised(packet)
  /\ UNCHANGED << packet_pool, packets >>
  /\ Stream_unchanged
  /\ Options_unchanged

-----------------------------------------------------------------------------
(* main(): the command line, one argument per step *)

\* the text behind '=' of an option; "" when the option is given bare
Values == {"", "on", "off"}

\* GlobalOptions::get_value with accept_no_value: a bare option reads as "true"
get_value(value) == IF value = "" THEN "true" ELSE value

\* GlobalOptions::is_true
is_true(value) == get_value(value) \in {"on", "true"}

Run_unchanged == UNCHANGED << invoked, delivered, packet_pool, packets >>

\* an argument that Options::check_spec consumes
Consumed ==
  /\ pc = "options"
  /\ n_args < MaxArgs
  /\ n_args' = n_args + 1
  /\ UNCHANGED << pc, n_logs >>
  /\ Stream_unchanged
  /\ Run_unchanged
  /\ Helper_unchanged

\* CHECK_OPTION_BOOL(dump_update)
check_spec_dump_update(value) ==
  /\ Consumed
  /\ dump_update' = is_true(value)
  /\ UNCHANGED << switched_on, ins_gps_sync_strategy, dump_correct, initial_attitude_mode,
                  initial_attitude_yaw_deg, yaw_correct_with_mag_speed >>

\* CHECK_OPTION_BOOL(dump_correct)
check_spec_dump_correct(value) ==
  /\ Consumed
  /\ dump_correct' = is_true(value)
  /\ UNCHANGED << switched_on, ins_gps_sync_strategy, dump_update, initial_attitude_mode,
                  initial_attitude_yaw_deg, yaw_correct_with_mag_speed >>

\* CHECK_OPTION(back_propagate, ...)
check_spec_back_propagate(value) ==
  /\ Consumed
  /\ IF is_true(value)
     THEN /\ ins_gps_sync_strategy' = "BACK_PROPAGATION"
          /\ switched_on' = switched_on \cup {"BACK_PROPAGATION"}
     ELSE UNCHANGED << ins_gps_sync_strategy, switched_on >>
  /\ UNCHANGED << dump_update, dump_correct, initial_attitude_mode,
                  initial_attitude_yaw_deg, yaw_correct_with_mag_speed >>

\* CHECK_OPTION(realtime, ...)
check_spec_realtime(value) ==
  /\ Consumed
  /\ IF is_true(value)
     THEN /\ ins_gps_sync_strategy' = "REALTIME"
          /\ switched_on' = switched_on \cup {"REALTIME"}
     ELSE UNCHANGED << ins_gps_sync_strategy, switched_on >>
  /\ UNCHANGED << dump_update, dump_correct, initial_attitude_mode,
                  initial_attitude_yaw_deg, yaw_correct_with_mag_speed >>

\* --init_attitude_deg: initial_attitude_t::parse, converted being the number
\* of angles sscanf reads and yaw_deg the first of them
check_spec_init_attitude_deg(converted, yaw_deg) ==
  /\ Consumed
  /\ initial_attitude_mode' = IF converted > 0 THEN converted ELSE initial_attitude_mode
  /\ initial_attitude_yaw_deg' = IF converted > 0 THEN yaw_deg ELSE initial_attitude_yaw_deg
  /\ UNCHANGED << switched_on, ins_gps_sync_strategy, dump_update, dump_correct,
                  yaw_correct_with_mag_speed >>

\* --init_yaw_deg: initial_attitude_t::parse_yaw
check_spec_init_yaw_deg(yaw_deg) ==
  /\ Consumed
  /\ initial_attitude_mode' = YAW_ONLY
  /\ initial_attitude_yaw_deg' = yaw_deg
  /\ UNCHANGED << switched_on, ins_gps_sync_strategy, dump_update, dump_correct,
                  yaw_correct_with_mag_speed >>

\* an argument that no check_spec consumes names a log file
LogFile ==
  /\ pc = "options"
  /\ n_args < MaxArgs
  /\ n_args' = n_args + 1
  /\ n_logs' = n_logs + 1
  /\ UNCHANGED << pc, switched_on, ins_gps_sync_strategy, dump_update, dump_correct,
                  initial_attitude_mode, initial_attitude_yaw_deg,
                  yaw_correct_with_mag_speed >>
  /\ Stream_unchanged
  /\ Run_unchanged
  /\ Helper_unchanged

\* the arguments are through: main() leaves with -1 or enters loop()
EndOfArguments ==
  /\ pc = "options"
  /\ pc' = IF n_args = 0 \/ n_logs = 0 \/ n_logs > 1 THEN "exit" ELSE "loop"
  /\ Stream_unchanged
  /\ Options_unchanged
  /\ Run_unchanged
  /\ Helper_unchanged

-----------------------------------------------------------------------------
(* StreamProcessor: the pages of the log are turned into packets for the    *)
(* update target.  Times are in ticks of 1 / TicksPerSecond s.  The         *)
(* handlers map a record sp = [a_handler, m_handler, g_handler, forwarded]  *)
(* to the record after the call; forwarded lists the packets handed to      *)
(* updatable->update.                                                       *)

WN_INVALID == 0 - 1

\* ITOW of the A and M pages: up to two seconds, by ticks and by seconds
RawItows == 0..(2 * TicksPerSecond)

RawSeconds == {0, TicksPerSecond, 2 * TicksPerSecond}

\* ITOW of the G pages and of the time window
GItows == 0..2

Mids == {"NAV-POSLLH", "NAV-STATUS", "NAV-SOL", "NAV-VELNED", "NAV-TIMEGPS", "RXM-RAW"}

Observer(type, valid, mid, itow, week) ==
  [type |-> type, valid |-> valid, mid |-> mid, itow |-> itow, week |-> week]

\* the pages of a log: valid and invalid A and M pages, the messages of the
\* receiver (NAV-SOL with and without a valid week number)
Pages ==
  {Observer("A", TRUE, "", t, 0) : t \in RawItows}
  \cup {Observer("A", FALSE, "", 0, 0)}
  \cup {Observer("M", TRUE, "", t, 0) : t \in RawSeconds}
  \cup {Observer("M", FALSE, "", 0, 0)}
  \cup {Observer("G", TRUE, mid, t, 0) : mid \in {"NAV-POSLLH", "NAV-VELNED"}, t \in GItows}
  \cup {Observer("G", TRUE, "NAV-SOL", 0, week) : week \in {WN_INVALID, 1}}
  \cup {Observer("G", TRUE, mid, 0, 0) : mid \in {"NAV-STATUS", "NAV-TIMEGPS", "RXM-RAW"}}
  \cup {Observer("G", FALSE, "NAV-SOL", 0, 1)}

NoPage == Observer("none", FALSE, "", 0, 0)

Forwarded(type, itow) == [type |-> type, itow |-> itow]

\* updatable->update(packet)
updatable_update(sp, type, itow) ==
  [sp EXCEPT !.forwarded = Append(@, Forwarded(type, itow))]

\* GlobalOptions::is_time_after_start and is_time_before_end, for a time
\* window given in seconds of the week
is_time_after_start(itow, week_number, start) == itow >= start

is_time_before_end(itow, week_number, end) == itow <= end

\* a glitch reduction that takes two seconds for a glitch as well
reduce_1pps_closed(itow, latest, reduce) ==
  IF reduce /\ (itow - latest >= TicksPerSecond) /\ (itow - latest <= 2 * TicksPerSecond)
  THEN itow - TicksPerSecond ELSE itow

\* if(options.reduce_1pps_sync_error){...}: the itow the packet gets
reduce_1pps(itow, latest, reduce) ==
  IF reduce /\ (itow - latest >= TicksPerSecond) /\ (itow - latest < 2 * TicksPerSecond)
  THEN itow - TicksPerSecond ELSE itow

\* AHandler::operator()
AHandler(sp, observer, reduce) ==
  IF ~observer.valid THEN sp
  ELSE LET itow == reduce_1pps(observer.itow, sp.a_handler.packet_latest, reduce)
       IN  updatable_update([sp EXCEPT !.a_handler.packet_latest = itow,
                                       !.a_handler.delivered = TRUE], "A", itow)

\* MHandler::operator(), observer.valid standing for validate() and the
\* outlier test
MHandler(sp, observer, reduce) ==
  IF ~observer.valid THEN sp
  ELSE LET itow == reduce_1pps(observer.itow, sp.m_handler.packet_latest, reduce)
       IN  updatable_update([sp EXCEPT !.m_handler.packet_latest = itow,
                                       !.m_handler.delivered = TRUE], "M", itow)

\* a GHandler::update that hands on the packet that lies past the end as well
GHandler_update_late(sp, itow, start, end) ==
  LET g == sp.g_handler
  IN  IF g.time_stamp \in {"TIME_STAMP_INVALID", "TIME_STAMP_AFTER_END"} THEN sp
      ELSE IF g.time_stamp = "TIME_STAMP_BEFORE_START"
              /\ ~is_time_after_start(itow, g.week_number, start) THEN sp
      ELSE IF ~is_time_before_end(itow, g.week_number, end)
           THEN updatable_update([sp EXCEPT !.g_handler.time_stamp = "TIME_STAMP_AFTER_END"],
                                 "G", itow)
           ELSE updatable_update([sp EXCEPT !.g_handler.time_stamp = "TIME_STAMP_IN_RANGE"],
                                 "G", itow)

\* GHandler::update
GHandler_update(sp, itow, start, end) ==
  LET g == sp.g_handler
  IN  IF g.time_stamp \in {"TIME_STAMP_INVALID", "TIME_STAMP_AFTER_END"} THEN sp
      ELSE IF g.time_stamp = "TIME_STAMP_BEFORE_START"
              /\ ~is_time_after_start(itow, g.week_number, start) THEN sp
      ELSE IF ~is_time_before_end(itow, g.week_number, end)
           THEN [sp EXCEPT !.g_handler.time_stamp = "TIME_STAMP_AFTER_END"]
           ELSE updatable_update([sp EXCEPT !.g_handler.time_stamp = "TIME_STAMP_IN_RANGE"],
                                 "G", itow)

\* the end of check_nav: position and velocity of the same epoch make a packet
check_nav_epoch(sp, start, end) ==
  IF sp.g_handler.itow_ms_0x0102 = sp.g_handler.itow_ms_0x0112
  THEN GHandler_update([sp EXCEPT !.g_handler.packet_latest = sp.g_handler.itow_ms_0x0102],
                       sp.g_handler.itow_ms_0x0102, start, end)
  ELSE sp

\* GHandler::check_nav
check_nav(sp, observer, start, end) ==
  IF observer.mid = "NAV-POSLLH"
  THEN check_nav_epoch([sp EXCEPT !.g_handler.itow_ms_0x0102 = observer.itow], start, end)
  ELSE IF observer.mid = "NAV-STATUS" THEN sp
  ELSE IF observer.mid = "NAV-SOL"
  THEN IF observer.week # WN_INVALID
       THEN [sp EXCEPT !.g_handler.week_number = observer.week,
                       !.g_handler.time_stamp =
                          IF @ = "TIME_STAMP_INVALID" THEN "TIME_STAMP_BEFORE_START" ELSE @]
       ELSE sp
  ELSE IF observer.mid = "NAV-VELNED"
  THEN check_nav_epoch([sp EXCEPT !.g_handler.itow_ms_0x0112 = observer.itow], start, end)
  ELSE IF observer.mid = "NAV-TIMEGPS"
  THEN check_nav_epoch(updatable_update(sp, "T", observer.itow), start, end)
  ELSE sp

\* GHandler::operator()
GHandler(sp, observer, start, end) ==
  IF ~observer.valid THEN sp
  ELSE IF observer.mid = "RXM-RAW" THEN sp
  ELSE check_nav(sp, observer, start, end)

StreamProcessor == [a_handler |-> a_handler, m_handler |-> m_handler,
                    g_handler |-> g_handler, forwarded |-> << >>]

Main_unchanged ==
  UNCHANGED << pc, n_args, n_logs, switched_on, ins_gps_sync_strategy, dump_update,
               dump_correct, initial_attitude_mode, initial_attitude_yaw_deg,
               yaw_correct_with_mag_speed, delivered, applied, packet_pool,
               packets, status, recent_a, recent_m, nav_time, header, last, last_stamp,
               matrix_vars >>

\* StreamProcessor::process_1page on a page that could be read
process_1page(observer) ==
  /\ in_good
  /\ invoked < MaxPages
  /\ invoked' = invoked + 1
  /\ page' = observer
  /\ \E sp \in { IF observer.type = "A"
                 THEN AHandler(StreamProcessor, observer, reduce_1pps_sync_error)
                 ELSE IF observer.type = "G"
                 THEN GHandler(StreamProcessor, observer, start_gpst, end_gpst)
                 ELSE IF use_magnet
                 THEN MHandler(StreamProcessor, observer, reduce_1pps_sync_error)
                 ELSE StreamProcessor } :
       /\ a_handler' = sp.a_handler
       /\ m_handler' = sp.m_handler
       /\ g_handler' = sp.g_handler
       /\ forwarded' = sp.forwarded
       /\ in_good' = ~(observer.type = "G"
                       /\ sp.g_handler.time_stamp = "TIME_STAMP_AFTER_END")
  /\ UNCHANGED << reduce_1pps_sync_error, use_magnet, start_gpst, end_gpst >>
  /\ Main_unchanged

\* StreamProcessor::process_1page at the end of the input
process_1page_fail ==
  /\ in_good
  /\ in_good' = FALSE
  /\ page' = NoPage
  /\ forwarded' = << >>
  /\ UNCHANGED << invoked, reduce_1pps_sync_error, use_magnet, start_gpst, end_gpst,
                  a_handler, m_handler, g_handler >>
  /\ Main_unchanged

-----------------------------------------------------------------------------
(* Matrix over Array2D_Dense.  heap maps an address to the block of         *)
(* elements new T[rows * columns] with its reference counter; an object of  *)
(* class Matrix is its storage (the address of the block its Array2D_Dense  *)
(* points to) and its view.  Operations return the heap and the object      *)
(* they make.                                                               *)

MatrixNames == {"m", "m2", "m3"}

NULL == 0

Addresses == 1..MaxStorages

Elements == {0, 1}

partial_prop_t(rows, row_offset, columns, column_offset) ==
  [rows |-> rows, row_offset |-> row_offset,
   columns |-> columns, column_offset |-> column_offset]

\* no object of that name in scope
NoMatrix == [storage |-> NULL, view |-> "", partial_prop |-> partial_prop_t(0, 0, 0, 0)]

\* an address that is not allocated
NoBlock == [rows |-> 0, columns |-> 0, values |-> << >>, ref |-> 0]

\* Array2D_Dense(rows, columns, serialized): values(new T[rows * columns]), ref(new int(1))
Array2D_Dense(rows, columns, serialized) ==
  [rows |-> rows, columns |-> columns, values |-> serialized, ref |-> 1]

\* Array2D_Dense::operator(): values[(row * columns()) + column]
Array2D_Dense_at(block, row, column) == block.values[(row * block.columns) + column + 1]

\* Array2D_Dense::copy(false): new self_t(*this), (*(ref = array.ref))++
Array2D_Dense_link(h, storage) == [h EXCEPT ![storage].ref = @ + 1]

\* ~Array2D_Dense: if(ref && ((--(*ref)) <= 0)){delete [] values; delete ref;}
Array2D_Dense_delete(h, storage) ==
  IF h[storage].ref - 1 <= 0 THEN [h EXCEPT ![storage] = NoBlock]
  ELSE [h EXCEPT ![storage].ref = @ - 1]

FreeAddresses(h) == { a \in Addresses : h[a].ref = 0 }

\* The view types are MatrixView, MatrixViewTranspose<MatrixView>,
\* MatrixViewPartial<MatrixView> and
\* MatrixViewTranspose<MatrixViewPartial<MatrixView> >, written without their
\* innermost argument.

\* view.rows(storage->rows(), storage->columns())
Matrix_rows(h, mat) ==
  IF mat.view = "MatrixView" THEN h[mat.storage].rows
  ELSE IF mat.view = "MatrixViewTranspose" THEN h[mat.storage].columns
  ELSE IF mat.view = "MatrixViewPartial" THEN mat.partial_prop.rows
  ELSE mat.partial_prop.columns

\* view.columns(storage->rows(), storage->columns())
Matrix_columns(h, mat) ==
  IF mat.view = "MatrixView" THEN h[mat.storage].columns
  ELSE IF mat.view = "MatrixViewTranspose" THEN h[mat.storage].rows
  ELSE IF mat.view = "MatrixViewPartial" THEN mat.partial_prop.columns
  ELSE mat.partial_prop.rows

\* view.i(row, column)
view_i(mat, i, j) ==
  IF mat.view = "MatrixView" THEN i
  ELSE IF mat.view = "MatrixViewTranspose" THEN j
  ELSE IF mat.view = "MatrixViewPartial" THEN i + mat.partial_prop.row_offset
  ELSE j + mat.partial_prop.row_offset

\* view.j(row, column)
view_j(mat, i, j) ==
  IF mat.view = "MatrixView" THEN j
  ELSE IF mat.view = "MatrixViewTranspose" THEN i
  ELSE IF mat.view = "MatrixViewPartial" THEN j + mat.partial_prop.column_offset
  ELSE i + mat.partial_prop.column_offset

\* Matrix::operator()(row, column) const
Matrix_at(h, mat, row, column) ==
  Array2D_Dense_at(h[mat.storage], view_i(mat, row, column), view_j(mat, row, column))

\* Matrix(rows, columns): new storage_t(rows, columns), clear()
Matrix_new(h, rows, columns, fresh) ==
  [heap |-> [h EXCEPT ![fresh] = Array2D_Dense(rows, columns,
                                               [n \in 1..(rows * columns) |-> 0])],
   matrix |-> [storage |-> fresh, view |-> "MatrixView",
               partial_prop |-> partial_prop_t(0, 0, 0, 0)]]

\* Matrix(const self_t &matrix): storage(matrix.array2d()->copy(false)), view(matrix.view)
Matrix_copy_constructor(h, mat) ==
  [heap |-> Array2D_Dense_link(h, mat.storage), matrix |-> mat]

\* Matrix::operator=(const self_t &matrix), this != &matrix
Matrix_assign(h, this, mat) ==
  [heap |-> Array2D_Dense_link(Array2D_Dense_delete(h, this.storage), mat.storage),
   matrix |-> mat]

\* MatrixViewBuilder<View>::transpose_t: switch_t<MatrixViewTranspose>
transpose_t(view) ==
  IF view = "MatrixView" THEN "MatrixViewTranspose"
  ELSE IF view = "MatrixViewTranspose" THEN "MatrixView"
  ELSE IF view = "MatrixViewPartial" THEN "MatrixViewTranspose<MatrixViewPartial>"
  ELSE "MatrixViewPartial"

\* MatrixViewBuilder<View>::partial_t: once_t<MatrixViewPartial>, the
\* transposition sorted to the outside
partial_t(view) ==
  IF view \in {"MatrixView", "MatrixViewPartial"} THEN "MatrixViewPartial"
  ELSE "MatrixViewTranspose<MatrixViewPartial>"

\* MatrixViewProperty<View>::transposed
transposed(view) == view \in {"MatrixViewTranspose", "MatrixViewTranspose<MatrixViewPartial>"}

\* a set_partial that takes the window as one of the storage whatever the view
set_partial_direct(view, prop, new_rows, new_columns, row_offset, column_offset) ==
  partial_prop_t(new_rows, prop.row_offset + row_offset,
                 new_columns, prop.column_offset + column_offset)

\* MatrixViewBuilder<View>::set_partial, View being the type of the result
set_partial(view, prop, new_rows, new_columns, row_offset, column_offset) ==
  IF transposed(view)
  THEN partial_prop_t(new_columns, prop.row_offset + column_offset,
                      new_rows, prop.column_offset + row_offset)
  ELSE partial_prop_t(new_rows, prop.row_offset + row_offset,
                      new_columns, prop.column_offset + column_offset)

\* Matrix::transpose(): transpose_t(*this); the view type switches, the
\* partial_prop is copied
Matrix_transpose(h, mat) ==
  [heap |-> Array2D_Dense_link(h, mat.storage),
   matrix |-> [mat EXCEPT !.view = transpose_t(@)]]

\* Matrix::partial(): partial_t res(*this), MatrixViewBuilder::set_partial
Matrix_partial(h, mat, new_rows, new_columns, row_offset, column_offset) ==
  [heap |-> Array2D_Dense_link(h, mat.storage),
   matrix |-> [mat EXCEPT !.view = partial_t(@),
                          !.partial_prop =
                             set_partial(partial_t(mat.view), @, new_rows, new_columns,
                                         row_offset, column_offset)]]

\* a copy() that links its result to the original
Matrix_copy_linked(h, mat, fresh) ==
  [heap |-> Array2D_Dense_link(h, mat.storage), matrix |-> mat]

\* Matrix::copy(): storage_t::copy(true) without a view, else blank_copy()
\* filled element by element
Matrix_copy(h, mat, fresh) ==
  LET rows == Matrix_rows(h, mat)
      columns == Matrix_columns(h, mat)
      block == IF mat.view = "MatrixView"
               THEN Array2D_Dense(h[mat.storage].rows, h[mat.storage].columns,
                                  h[mat.storage].values)
               ELSE Array2D_Dense(rows, columns,
                      [n \in 1..(rows * columns) |->
                         Matrix_at(h, mat, (n - 1) \div columns, (n - 1) % columns)])
  IN  [heap |-> [h EXCEPT ![fresh] = block],
       matrix |-> [storage |-> fresh, view |-> "MatrixView",
                   partial_prop |-> partial_prop_t(0, 0, 0, 0)]]

\* (*this)(row, column) = value
Matrix_write(h, mat, row, column, value) ==
  [h EXCEPT ![mat.storage].values[(view_i(mat, row, column) * h[mat.storage].columns)
                                   + view_j(mat, row, column) + 1] = value]

Operation(name, dst, src, row, column, value) ==
  [name |-> name, dst |-> dst, src |-> src, row |-> row, column |-> column,
   value |-> value]

\* an operation that makes a view, with its window
ViewOperation(name, dst, src, rows, columns, row_offset, column_offset) ==
  [name |-> name, dst |-> dst, src |-> src, row |-> row_offset,
   column |-> column_offset, value |-> 0, rows |-> rows, columns |-> columns]

Links(name) == { other \in MatrixNames : {name, other} \in linked }

\* dst has been made from src by a shallow copy
Link(dst, src) ==
  { pair \in linked : dst \notin pair }
  \cup { {dst, other} : other \in ({src} \cup Links(src)) \ {dst} }

Unlink(dst) == { pair \in linked : dst \notin pair }

Program_unchanged ==
  UNCHANGED << pc, n_args, n_logs, switched_on, ins_gps_sync_strategy, dump_update,
               dump_correct, initial_attitude_mode, initial_attitude_yaw_deg,
               yaw_correct_with_mag_speed, invoked, delivered, applied, packet_pool,
               packets, status, recent_a, recent_m, nav_time, header, last, last_stamp,
               stream_vars >>

\* the object dst comes into scope as the result res of the operation
Made(dst, res, operation, links) ==
  /\ heap' = res.heap
  /\ matrices' = [matrices EXCEPT ![dst] = res.matrix]
  /\ linked' = links
  /\ last_op' = operation
  /\ UNCHANGED << n_writes, call_vars >>
  /\ Program_unchanged

\* Matrix dst(MatrixRows, MatrixColumns);
Construct(dst) ==
  /\ matrices[dst] = NoMatrix
  /\ FreeAddresses(heap) # {}
  /\ \E fresh \in FreeAddresses(heap) :
       Made(dst, Matrix_new(heap, MatrixRows, MatrixColumns, fresh),
            Operation("Matrix", dst, dst, 0, 0, 0), Unlink(dst))

\* Matrix dst(src);
CopyConstruct(dst, src) ==
  /\ matrices[dst] = NoMatrix
  /\ matrices[src] # NoMatrix
  /\ Made(dst, Matrix_copy_constructor(heap, matrices[src]),
          Operation("copy_constructor", dst, src, 0, 0, 0), Link(dst, src))

\* dst = src; both of one type
Assign(dst, src) ==
  /\ dst # src
  /\ matrices[dst] # NoMatrix
  /\ matrices[src] # NoMatrix
  /\ matrices[dst].view = matrices[src].view
  /\ Made(dst, Matrix_assign(heap, matrices[dst], matrices[src]),
          Operation("operator=", dst, src, 0, 0, 0), Link(dst, src))

\* dst(src.transpose());
Transpose(dst, src) ==
  /\ matrices[dst] = NoMatrix
  /\ matrices[src] # NoMatrix
  /\ Made(dst, Matrix_transpose(heap, matrices[src]),
          Operation("transpose", dst, src, 0, 0, 0), Link(dst, src))

\* dst(src.partial(new_rows, new_columns, row_offset, column_offset)); without
\* the throw of "size exceeding"
Partial(dst, src, new_rows, new_columns, row_offset, column_offset) ==
  /\ matrices[dst] = NoMatrix
  /\ matrices[src] # NoMatrix
  /\ new_rows + row_offset <= Matrix_rows(heap, matrices[src])
  /\ new_columns + column_offset <= Matrix_columns(heap, matrices[src])
  /\ Made(dst, Matrix_partial(heap, matrices[src], new_rows, new_columns,
                              row_offset, column_offset),
          ViewOperation("partial", dst, src, new_rows, new_columns,
                        row_offset, column_offset), Link(dst, src))

\* the temporary of an expression is destroyed
Temporary(res, temporary) ==
  [heap |-> Array2D_Dense_delete(res.heap, temporary.storage), matrix |-> res.matrix]

\* dst(src.transpose().partial(new_rows, new_columns, row_offset, column_offset));
TransposePartial(dst, src, new_rows, new_columns, row_offset, column_offset) ==
  /\ matrices[dst] = NoMatrix
  /\ matrices[src] # NoMatrix
  /\ LET t == Matrix_transpose(heap, matrices[src])
     IN  /\ new_rows + row_offset <= Matrix_rows(t.heap, t.matrix)
         /\ new_columns + column_offset <= Matrix_columns(t.heap, t.matrix)
         /\ Made(dst, Temporary(Matrix_partial(t.heap, t.matrix, new_rows, new_columns,
                                               row_offset, column_offset), t.matrix),
                 ViewOperation("transpose.partial", dst, src, new_rows, new_columns,
                               row_offset, column_offset), Link(dst, src))

\* dst(src.partial(new_rows, new_columns, row_offset, column_offset).transpose());
PartialTranspose(dst, src, new_rows, new_columns, row_offset, column_offset) ==
  /\ matrices[dst] = NoMatrix
  /\ matrices[src] # NoMatrix
  /\ new_rows + row_offset <= Matrix_rows(heap, matrices[src])
  /\ new_columns + column_offset <= Matrix_columns(heap, matrices[src])
  /\ LET part == Matrix_partial(heap, matrices[src], new_rows, new_columns,
                                row_offset, column_offset)
     IN  Made(dst, Temporary(Matrix_transpose(part.heap, part.matrix), part.matrix),
              ViewOperation("partial.transpose", dst, src, new_rows, new_columns,
                            row_offset, column_offset), Link(dst, src))

\* dst(src.transpose().transpose());
TransposeTranspose(dst, src) ==
  /\ matrices[dst] = NoMatrix
  /\ matrices[src] # NoMatrix
  /\ LET t == Matrix_transpose(heap, matrices[src])
     IN  Made(dst, Temporary(Matrix_transpose(t.heap, t.matrix), t.matrix),
              Operation("transpose.transpose", dst, src, 0, 0, 0), Link(dst, src))

\* dst(src.copy());
Copy(dst, src) ==
  /\ matrices[dst] = NoMatrix
  /\ matrices[src] # NoMatrix
  /\ FreeAddresses(heap) # {}
  /\ \E fresh \in FreeAddresses(heap) :
       Made(dst, Matrix_copy(heap, matrices[src], fresh),
            Operation("copy", dst, src, 0, 0, 0), Unlink(dst))

\* dst(row, column) = value;
Write(dst, row, column, value) ==
  /\ matrices[dst] # NoMatrix
  /\ row < Matrix_rows(heap, matrices[dst])
  /\ column < Matrix_columns(heap, matrices[dst])
  /\ n_writes < MaxWrites
  /\ n_writes' = n_writes + 1
  /\ heap' = Matrix_write(heap, matrices[dst], row, column, value)
  /\ last_op' = Operation("write", dst, dst, row, column, value)
  /\ UNCHANGED << matrices, linked, call_vars >>
  /\ Program_unchanged

\* ~Matrix(): delete storage
Destruct(dst) ==
  /\ matrices[dst] # NoMatrix
  /\ heap' = Array2D_Dense_delete(heap, matrices[dst].storage)
  /\ matrices' = [matrices EXCEPT ![dst] = NoMatrix]
  /\ linked' = Unlink(dst)
  /\ last_op' = Operation("~Matrix", dst, dst, 0, 0, 0)
  /\ UNCHANGED << n_writes, call_vars >>
  /\ Program_unchanged

-----------------------------------------------------------------------------
(* Matrix::inverse.  The element type T is a field; the model takes the     *)
(* field of the integers modulo 3, whose operations are exact.              *)

Field == 0..2

Field_sub(a, b) == (a + (Cardinality(Field) - b)) % Cardinality(Field)

Field_mul(a, b) == (a * b) % Cardinality(Field)

\* a / b, b # 0
Field_div(a, b) == CHOOSE x \in Field : Field_mul(x, b) = a

IndexPairs(rows, columns) == (0..(rows - 1)) \X (0..(columns - 1))

\* the elements of a matrix object, by <<row, column>>
Matrix_elements(h, mat) ==
  [c \in IndexPairs(Matrix_rows(h, mat), Matrix_columns(h, mat)) |->
     Matrix_at(h, mat, c[1], c[2])]

\* Matrix::getI(size)
getI(size) == [c \in IndexPairs(size, size) |-> IF c[1] = c[2] THEN 1 ELSE 0]

\* Matrix::exchangeRows(row1, row2)
exchangeRows(elements, row1, row2) ==
  [c \in DOMAIN elements |->
     IF c[1] = row1 THEN elements[<< row2, c[2] >>]
     ELSE IF c[1] = row2 THEN elements[<< row1, c[2] >>]
     ELSE elements[c]]

\* exchange i-th and i2-th rows: for(unsigned int j(i); j < columns(); ++j)
exchange_from(elements, i, i2) ==
  [c \in DOMAIN elements |->
     IF c[2] < i THEN elements[c]
     ELSE IF c[1] = i THEN elements[<< i2, c[2] >>]
     ELSE IF c[1] = i2 THEN elements[<< i, c[2] >>]
     ELSE elements[c]]

\* a search for the pivot that leaves out the last row
pivot_rows_but_last(left, i, n) ==
  { i2 \in (i + 1)..(n - 2) : left[<< i2, i >>] # 0 }

\* the rows the do-while loop can stop at: do{ if(++i2 == rows()){throw ...} }
\* while(left(i2, i) == T(0));
pivot_rows(left, i, n) ==
  { i2 \in (i + 1)..(n - 1) : left[<< i2, i >>] # 0 }

\* if(left(i, i) != T(1)){...}: the row i of right and left divided by the pivot
normalize(elements, i, pivot, from) ==
  [c \in DOMAIN elements |->
     IF c[1] = i /\ c[2] >= from THEN Field_div(elements[c], pivot) ELSE elements[c]]

\* for(k ...){ if(k == i){continue;} if(left(k, i) != T(0)){...} }: the row i
\* times left(k, i) taken off the row k, from the column `from` on
eliminate(elements, left, i, from) ==
  [c \in DOMAIN elements |->
     IF c[1] # i /\ c[2] >= from
     THEN Field_sub(elements[c], Field_mul(elements[<< i, c[2] >>], left[<< c[1], i >>]))
     ELSE elements[c]]

Outcome(raised, step, left, right) ==
  [raised |-> raised, step |-> step, left |-> left, right |-> right]

\* the loop of Matrix::inverse from the step i on
RECURSIVE inverse_loop(_, _, _, _)
inverse_loop(left, right, i, n) ==
  IF i = n THEN Outcome(FALSE, i, left, right)
  ELSE IF left[<< i, i >>] = 0 /\ pivot_rows(left, i, n) = {}
  THEN Outcome(TRUE, i, left, right)  \* throw MatrixException("invert matrix not exist")
  ELSE LET i2 == CHOOSE r \in pivot_rows(left, i, n) :
                   \A other \in pivot_rows(left, i, n) : r <= other
           left1 == IF left[<< i, i >>] = 0 THEN exchange_from(left, i, i2) ELSE left
           right1 == IF left[<< i, i >>] = 0 THEN exchangeRows(right, i, i2) ELSE right
           pivot == left1[<< i, i >>]
           left2 == normalize(left1, i, pivot, i)
           right2 == normalize(right1, i, pivot, 0)
           left3 == [c \in DOMAIN left2 |->
                       IF c[1] # i /\ c[2] = i THEN 0
                       ELSE eliminate(left2, left2, i, i + 1)[c]]
           right3 == eliminate(right2, left2, i, 0)
       IN  inverse_loop(left3, right3, i + 1, n)

\* Matrix::inverse
inverse(h, mat) ==
  IF Matrix_rows(h, mat) # Matrix_columns(h, mat)
  THEN Outcome(TRUE, 0 - 1, Matrix_elements(h, mat), << >>)  \* "rows() != columns()"
  ELSE inverse_loop(Matrix_elements(h, mat), getI(Matrix_rows(h, mat)), 0,
                    Matrix_rows(h, mat))

\* the view-less matrix returned by inverse()
Matrix_of(h, elements, order, fresh) ==
  [heap |-> [h EXCEPT ![fresh] =
               Array2D_Dense(order, order,
                             [n \in 1..(order * order) |->
                                elements[<< (n - 1) \div order, (n - 1) % order >>]])],
   matrix |-> [storage |-> fresh, view |-> "MatrixView",
               partial_prop |-> partial_prop_t(0, 0, 0, 0)]]

InverseOperation(dst, src, outcome) ==
  [name |-> "inverse", dst |-> dst, src |-> src, row |-> 0, column |-> 0, value |-> 0,
   outcome |-> outcome]

\* dst(src.inverse()); or the MatrixException
Inverse(dst, src) ==
  /\ matrices[dst] = NoMatrix
  /\ matrices[src] # NoMatrix
  /\ FreeAddresses(heap) # {}
  /\ \E outcome \in {inverse(heap, matrices[src])} :
       IF outcome.raised
       THEN /\ last_op' = InverseOperation(dst, src, outcome)
            /\ UNCHANGED << heap, matrices, linked, n_writes, call_vars >>
            /\ Program_unchanged
       ELSE \E fresh \in FreeAddresses(heap) :
              Made(dst, Matrix_of(heap, outcome.right, Matrix_rows(heap, matrices[src]), fresh),
                   InverseOperation(dst, src, outcome), Unlink(dst))

\* no call of the numerical routines is in progress
NoRun ==
  [order |-> 0, sym |-> FALSE, pc |-> "", j |-> 0, i |-> 0, omega_rows |-> 0, steps |-> 0,
   zeros |-> {}, out_of_range |-> << >>]

\* no G packet with a lever arm is being processed
NoMean == [pc |-> "", buf |-> << >>, itow |-> 0, it |-> 0, i |-> 0, summed |-> << >>]

\* nothing has been constructed
NoObjects ==
  [buffers |-> << >>, arrays |-> << >>,
   stack |-> [name \in {"a", "a2"} |-> 0],
   matrices |-> [name \in {"m", "m2"} |-> [live |-> FALSE, storage |-> 0]],
   op |-> << >>]

\* solve_user_pvt is not being called
NoPvt == [pc |-> ""]

InitCalls ==
  /\ hessenberg_run = NoRun
  /\ mean_run = NoMean
  /\ pvt = NoPvt
  /\ lifetimes = NoObjects

InitMatrix ==
  /\ heap = [a \in Addresses |-> NoBlock]
  /\ matrices = [name \in MatrixNames |-> NoMatrix]
  /\ linked = {}
  /\ last_op = Operation("", "", "", 0, 0, 0)
  /\ n_writes = 0
  /\ InitCalls

-----------------------------------------------------------------------------
(* Specification of loop(): the options are those of any command line *)

InitRun ==
  /\ invoked = 0
  /\ delivered = [t \in Itows |-> 0]
  /\ applied = [t \in Itows |-> 0]
  /\ packet_pool = << >>
  /\ packets = 0
  /\ status = UNINITIALIZED
  /\ recent_a = << >>
  /\ recent_m = << >>
  /\ nav_time = NoTime
  /\ header = [mode |-> "N/A", itow |-> 0]
  /\ last = [packet |-> NoPacket, calls |-> << >>, assigned |-> << >>,
             attitude |-> NoAttitude, snapshots |-> << >>, out |-> << >>,
             raised |-> FALSE]
  /\ last_stamp = NoTime
  /\ InitMatrix

\* StreamProcessor::StreamProcessor and the defaults of the options
InitStream ==
  /\ reduce_1pps_sync_error = FALSE
  /\ use_magnet = FALSE
  /\ start_gpst = 0
  /\ end_gpst = 0
  /\ a_handler = [packet_latest |-> 0, delivered |-> FALSE]
  /\ m_handler = [packet_latest |-> 0, delivered |-> FALSE]
  /\ g_handler = [packet_latest |-> 0, itow_ms_0x0102 |-> 0 - 1, itow_ms_0x0112 |-> 0 - 1,
                  week_number |-> WN_INVALID, time_stamp |-> "TIME_STAMP_INVALID"]
  /\ page = NoPage
  /\ forwarded = << >>
  /\ in_good = TRUE

Init ==
  /\ pc = "loop"
  /\ n_args = 0
  /\ n_logs = 1
  /\ ins_gps_sync_strategy \in Strategies
  /\ switched_on = IF ins_gps_sync_strategy = "OFFLINE" THEN {}
                   ELSE {ins_gps_sync_strategy}
  /\ dump_update \in BOOLEAN
  /\ dump_correct \in BOOLEAN
  /\ initial_attitude_mode \in {NOT_GIVEN, FULL_GIVEN}
  /\ initial_attitude_yaw_deg = IF initial_attitude_mode = NOT_GIVEN THEN 0
                                ELSE GivenYawDeg
  /\ yaw_correct_with_mag_speed = yaw_correct_with_mag_when_speed_less_than_ms
  /\ InitRun
  /\ InitStream

Next ==
  \/ \E packet \in Packet : Update(packet)
  \/ ApplyFront
  \/ \E packet \in Packet : UpdateRealtime(packet)
  \/ EndOfStream
  \/ EndOfStreamRealtime
  \/ Return

Spec == Init /\ [][Next]_vars

-----------------------------------------------------------------------------
(* Specification of the option check of main(), up to the call of loop() *)

InitOptions ==
  /\ pc = "options"
  /\ n_args = 0
  /\ n_logs = 0
  /\ switched_on = {}
  /\ ins_gps_sync_strategy = "OFFLINE"
  /\ dump_update = TRUE
  /\ dump_correct = FALSE
  /\ initial_attitude_mode = NOT_GIVEN
  /\ initial_attitude_yaw_deg = 0
  /\ yaw_correct_with_mag_speed = yaw_correct_with_mag_when_speed_less_than_ms
  /\ InitRun
  /\ InitStream

NextOptions ==
  \/ \E value \in Values : check_spec_dump_update(value)
  \/ \E value \in Values : check_spec_dump_correct(value)
  \/ \E value \in Values : check_spec_back_propagate(value)
  \/ \E value \in Values : check_spec_realtime(value)
  \/ \E converted \in NOT_GIVEN..FULL_GIVEN, yaw_deg \in {0, GivenYawDeg} :
       check_spec_init_attitude_deg(converted, yaw_deg)
  \/ \E yaw_deg \in {0, GivenYawDeg} : check_spec_init_yaw_deg(yaw_deg)
  \/ LogFile
  \/ EndOfArguments

SpecOptions == InitOptions /\ [][NextOptions]_vars

-----------------------------------------------------------------------------
(* Specification of loop() for a receiver at rest or moving, with any       *)
(* initial attitude option and any speed threshold of the yaw compensation  *)

\* v_n^2 + v_e^2 of the solution: at rest, just below the square of the
\* default threshold, and on it
Speeds == {0,
           yaw_correct_with_mag_when_speed_less_than_ms
             * yaw_correct_with_mag_when_speed_less_than_ms - 1,
           yaw_correct_with_mag_when_speed_less_than_ms
             * yaw_correct_with_mag_when_speed_less_than_ms}

ControllerPackets ==
  [type : {"A"}, itow : {0, 1}, sigma_2d : {0}, sigma_height : {0}, speed2 : {0}]
  \cup [type : {"M"}, itow : {0}, sigma_2d : {0}, sigma_height : {0}, speed2 : {0}]
  \cup [type : {"G"}, itow : {0, 1}, sigma_2d : {init_acc_2d},
        sigma_height : {init_acc_v}, speed2 : Speeds]
  \cup [type : {"G"}, itow : {0}, sigma_2d : {cont_acc_2d},
        sigma_height : {init_acc_v}, speed2 : {0}]

InitController ==
  /\ pc = "loop"
  /\ n_args = 0
  /\ n_logs = 1
  /\ ins_gps_sync_strategy \in Strategies
  /\ switched_on = IF ins_gps_sync_strategy = "OFFLINE" THEN {}
                   ELSE {ins_gps_sync_strategy}
  /\ dump_update = TRUE
  /\ dump_correct = FALSE
  /\ initial_attitude_mode \in NOT_GIVEN..FULL_GIVEN
  /\ initial_attitude_yaw_deg = IF initial_attitude_mode = NOT_GIVEN THEN 0
                                ELSE GivenYawDeg
  /\ yaw_correct_with_mag_speed \in {0 - yaw_correct_with_mag_when_speed_less_than_ms, 0,
                                      yaw_correct_with_mag_when_speed_less_than_ms}
  /\ InitRun
  /\ InitStream

NextController ==
  \/ \E packet \in ControllerPackets : Update(packet)
  \/ ApplyFront
  \/ \E packet \in ControllerPackets : UpdateRealtime(packet)
  \/ EndOfStream
  \/ EndOfStreamRealtime
  \/ Return

SpecController == InitController /\ [][NextController]_vars

-----------------------------------------------------------------------------
(* Specification of loop() where a correction of the filter may meet a      *)
(* matrix without inverse                                                   *)

NextMatrixException ==
  \/ NextController
  \/ ApplyFrontRaised
  \/ \E packet \in ControllerPackets : UpdateRealtimeRaised(packet)

SpecMatrixException == InitController /\ [][NextMatrixException]_vars

-----------------------------------------------------------------------------
(* Specification of the stream processor: while(proc.process_1page()); with *)
(* any options and any log                                                  *)

InitStreamProcessor ==
  /\ pc = "loop"
  /\ n_args = 0
  /\ n_logs = 1
  /\ switched_on = {"REALTIME"}
  /\ ins_gps_sync_strategy = "REALTIME"
  /\ dump_update = TRUE
  /\ dump_correct = FALSE
  /\ initial_attitude_mode = NOT_GIVEN
  /\ initial_attitude_yaw_deg = 0
  /\ yaw_correct_with_mag_speed = yaw_correct_with_mag_when_speed_less_than_ms
  /\ InitRun
  /\ reduce_1pps_sync_error \in BOOLEAN
  /\ use_magnet \in BOOLEAN
  /\ start_gpst \in {0, 1}
  /\ end_gpst \in {1, 2}
  /\ a_handler = [packet_latest |-> 0, delivered |-> FALSE]
  /\ m_handler = [packet_latest |-> 0, delivered |-> FALSE]
  /\ g_handler = [packet_latest |-> 0, itow_ms_0x0102 |-> 0 - 1, itow_ms_0x0112 |-> 0 - 1,
                  week_number |-> WN_INVALID, time_stamp |-> "TIME_STAMP_INVALID"]
  /\ page = NoPage
  /\ forwarded = << >>
  /\ in_good = TRUE

NextStreamProcessor ==
  \/ \E observer \in Pages : process_1page(observer)
  \/ process_1page_fail

SpecStreamProcessor == InitStreamProcessor /\ [][NextStreamProcessor]_vars

-----------------------------------------------------------------------------
(* Specification of the matrices: any sequence of constructions, copies,    *)
(* views, element writes and destructions                                   *)

InitMatrices ==
  /\ pc = "loop"
  /\ n_args = 0
  /\ n_logs = 1
  /\ switched_on = {}
  /\ ins_gps_sync_strategy = "OFFLINE"
  /\ dump_update = TRUE
  /\ dump_correct = FALSE
  /\ initial_attitude_mode = NOT_GIVEN
  /\ initial_attitude_yaw_deg = 0
  /\ yaw_correct_with_mag_speed = yaw_correct_with_mag_when_speed_less_than_ms
  /\ InitRun
  /\ InitStream

NextMatrix ==
  \/ \E dst \in MatrixNames : Construct(dst)
  \/ \E dst, src \in MatrixNames : CopyConstruct(dst, src)
  \/ \E dst, src \in MatrixNames : Assign(dst, src)
  \/ \E dst, src \in MatrixNames :
       /\ matrices[src].view \in {"MatrixView", "MatrixViewTranspose"}
       /\ Transpose(dst, src)
  \/ \E dst, src \in MatrixNames :
       \E new_rows \in 1..MatrixRows, new_columns \in 1..MatrixColumns,
          row_offset \in 0..(MatrixRows - 1), column_offset \in 0..(MatrixColumns - 1) :
         /\ matrices[src].view \in {"MatrixView", "MatrixViewPartial"}
         /\ Partial(dst, src, new_rows, new_columns, row_offset, column_offset)
  \/ \E dst, src \in MatrixNames : Copy(dst, src)
  \/ \E dst \in MatrixNames :
       \E row \in 0..(MatrixColumns - 1), column \in 0..(MatrixColumns - 1),
          value \in Elements :
         Write(dst, row, column, value)
  \/ \E dst \in MatrixNames : Destruct(dst)

SpecMatrix == InitMatrices /\ [][NextMatrix]_vars

-----------------------------------------------------------------------------
(* Specification of the views: m is a matrix of ViewRows x ViewColumns      *)
(* distinct elements; views of m and of its views are made and destroyed    *)

ViewSizes == 1..ViewColumns

ViewOffsets == 0..(ViewColumns - 1)

\* the program outside the matrices, at the call of loop() with the default options
InitProgram ==
  /\ pc = "loop"
  /\ n_args = 0
  /\ n_logs = 1
  /\ switched_on = {}
  /\ ins_gps_sync_strategy = "OFFLINE"
  /\ dump_update = TRUE
  /\ dump_correct = FALSE
  /\ initial_attitude_mode = NOT_GIVEN
  /\ initial_attitude_yaw_deg = 0
  /\ yaw_correct_with_mag_speed = yaw_correct_with_mag_when_speed_less_than_ms
  /\ invoked = 0
  /\ delivered = [t \in Itows |-> 0]
  /\ applied = [t \in Itows |-> 0]
  /\ packet_pool = << >>
  /\ packets = 0
  /\ status = UNINITIALIZED
  /\ recent_a = << >>
  /\ recent_m = << >>
  /\ nav_time = NoTime
  /\ header = [mode |-> "N/A", itow |-> 0]
  /\ last = [packet |-> NoPacket, calls |-> << >>, assigned |-> << >>,
             attitude |-> NoAttitude, snapshots |-> << >>, out |-> << >>,
             raised |-> FALSE]
  /\ last_stamp = NoTime
  /\ InitStream

InitViews ==
  /\ InitProgram
  /\ heap = [a \in Addresses |->
               IF a = 1 THEN Array2D_Dense(ViewRows, ViewColumns,
                                           [n \in 1..(ViewRows * ViewColumns) |-> n])
               ELSE NoBlock]
  /\ matrices = [name \in MatrixNames |->
                   IF name = "m" THEN [storage |-> 1, view |-> "MatrixView",
                                       partial_prop |-> partial_prop_t(0, 0, 0, 0)]
                   ELSE NoMatrix]
  /\ linked = {}
  /\ last_op = Operation("Matrix", "m", "m", 0, 0, 0)
  /\ n_writes = 0
  /\ InitCalls

NextViews ==
  \/ \E dst, src \in MatrixNames : Transpose(dst, src)
  \/ \E dst, src \in MatrixNames : TransposeTranspose(dst, src)
  \/ \E dst, src \in MatrixNames :
       \E new_rows, new_columns \in ViewSizes, row_offset, column_offset \in ViewOffsets :
         \/ Partial(dst, src, new_rows, new_columns, row_offset, column_offset)
         \/ TransposePartial(dst, src, new_rows, new_columns, row_offset, column_offset)
         \/ PartialTranspose(dst, src, new_rows, new_columns, row_offset, column_offset)
  \/ \E dst \in MatrixNames \ {"m"} : Destruct(dst)

SpecViews == InitViews /\ [][NextViews]_vars

-----------------------------------------------------------------------------
(* Specification of Matrix::inverse: m is any matrix of up to MaxOrder rows *)
(* and columns over the field; it is inverted                               *)

InitInverse ==
  /\ InitProgram
  /\ \E rows, columns \in 1..MaxOrder :
       \E values \in [1..(rows * columns) -> Field] :
         heap = [a \in Addresses |->
                   IF a = 1 THEN Array2D_Dense(rows, columns, values) ELSE NoBlock]
  /\ matrices = [name \in MatrixNames |->
                   IF name = "m" THEN [storage |-> 1, view |-> "MatrixView",
                                       partial_prop |-> partial_prop_t(0, 0, 0, 0)]
                   ELSE NoMatrix]
  /\ linked = {}
  /\ last_op = Operation("Matrix", "m", "m", 0, 0, 0)
  /\ n_writes = 0
  /\ InitCalls

NextInverse ==
  \/ \E dst \in MatrixNames : Inverse(dst, "m")
  \/ \E dst \in MatrixNames \ {"m"} : Destruct(dst)

SpecInverse == InitInverse /\ [][NextInverse]_vars

-----------------------------------------------------------------------------
(* Matrix::hessenberg: the loops, their bounds and the elements they touch.  *)
(* The element values are left out: a Householder step overwrites the whole  *)
(* result, the final loop writes zeros                                       *)

MaxHessenbergOrder == 4

\* the largest unsigned int; the arithmetic of the loop bounds is modulo UINT_MAX + 1
\* (16 bits stand for the 32 of the build: only 0 - 1 and 1 - 2 wrap)
UINT_MAX == 65535

unsigned_int(x) == x % (UINT_MAX + 1)

\* operator()(row, column) of a rows x columns matrix: the index is checked only in a
\* DEBUG build, an index outside the matrix is an access outside its buffer
in_range(row, column, rows, columns) == row < rows /\ column < columns

\* the run after a read or write of matrix(row, column): it goes on as `next`, or the
\* behaviour is undefined
access(h, matrix, row, column, rows, columns, next) ==
  IF in_range(row, column, rows, columns)
  THEN next
  ELSE [h EXCEPT !.pc = "undefined",
                 !.out_of_range = << matrix, row, column, rows, columns >>]

\* the successors of the run h of hessenberg() on a square matrix of h.order rows
hessenberg(h) ==
  CASE h.pc = "call" ->
         \* viewless_t result(copy());
         {[h EXCEPT !.pc = "for_j", !.j = 0]}
    [] h.pc = "for_j" ->
         \* for(unsigned int j(0); j < columns() - 2; j++)
         IF h.j < unsigned_int(h.order - 2)
         THEN {[h EXCEPT !.pc = "sum", !.i = unsigned_int(h.j + 1), !.steps = @ + 1]}
         ELSE {[h EXCEPT !.pc = "zero_j", !.j = 0]}
    [] h.pc = "sum" ->
         \* for(unsigned int i(j + 1); i < rows(); i++){t += pow(result(i, j), 2);}
         IF h.i < h.order
         THEN {access(h, "result", h.i, h.j, h.order, h.order,
                      [h EXCEPT !.i = unsigned_int(h.i + 1)])}
         ELSE {[h EXCEPT !.pc = "sign"]}
    [] h.pc = "sign" ->
         \* if(result(j + 1, j) < 0){s *= -1;}
         {access(h, "result", unsigned_int(h.j + 1), h.j, h.order, h.order,
                 [h EXCEPT !.pc = "omega", !.i = 0,
                           \* viewless_t omega(blank(rows() - (j+1), 1));
                           !.omega_rows = unsigned_int(h.order - (h.j + 1))])}
    [] h.pc = "omega" ->
         \* omega(i, 0) = result(j+i+1, j);
         IF h.i < h.omega_rows
         THEN {access(h, "result", unsigned_int(h.j + h.i + 1), h.j, h.order, h.order,
                      [h EXCEPT !.i = unsigned_int(h.i + 1)])}
         ELSE \* omega(0, 0) += s;
              {access(h, "omega", 0, 0, h.omega_rows, 1, [h EXCEPT !.pc = "denom"])}
    [] h.pc = "denom" ->
         \* T denom(t + result(j + 1, j) * s); if(denom){P.pivotMerge(...);}
         \* pivotMerge leaves out what lies beyond the rows and columns of P
         {access(h, "result", unsigned_int(h.j + 1), h.j, h.order, h.order,
                 [h EXCEPT !.pc = "multiply"])}
    [] h.pc = "multiply" ->
         \* result = P * result * P;
         {[h EXCEPT !.pc = "for_j", !.j = unsigned_int(h.j + 1), !.zeros = {}]}
    [] h.pc = "zero_j" ->
         \* for(unsigned int j(0); j < columns() - 2; j++)
         IF h.j < unsigned_int(h.order - 2)
         THEN {[h EXCEPT !.pc = "zero_i", !.i = unsigned_int(h.j + 2)]}
         ELSE {[h EXCEPT !.pc = "return"]}
    [] h.pc = "zero_i" ->
         \* for(unsigned int i(j + 2); i < rows(); i++){
         \*   result(i, j) = T(0); if(sym){result(j, i) = T(0);}}
         IF h.i < h.order
         THEN {access(h, "result", h.i, h.j, h.order, h.order,
                      [h EXCEPT !.i = unsigned_int(h.i + 1),
                                !.zeros = @ \cup {<< h.i, h.j >>}
                                            \cup (IF h.sym THEN {<< h.j, h.i >>} ELSE {})])}
         ELSE {[h EXCEPT !.pc = "zero_j", !.j = unsigned_int(h.j + 1)]}
    [] OTHER -> {}

Numeric_unchanged ==
  /\ UNCHANGED << heap, matrices, linked, last_op, n_writes >>
  /\ Program_unchanged

\* one step of the call in progress
Hessenberg ==
  /\ hessenberg_run' \in hessenberg(hessenberg_run)
  /\ UNCHANGED << mean_run, pvt, lifetimes >>
  /\ Numeric_unchanged

\* hessenberg() is called on any square matrix of up to MaxHessenbergOrder rows,
\* symmetric or not (a matrix of one row is symmetric)
InitHessenberg ==
  /\ InitProgram
  /\ heap = [a \in Addresses |-> NoBlock]
  /\ matrices = [name \in MatrixNames |-> NoMatrix]
  /\ linked = {}
  /\ last_op = Operation("", "", "", 0, 0, 0)
  /\ n_writes = 0
  /\ \E order \in 1..MaxHessenbergOrder, sym \in BOOLEAN :
       /\ order = 1 => sym
       /\ hessenberg_run = [NoRun EXCEPT !.order = order, !.sym = sym, !.pc = "call"]
  /\ mean_run = NoMean
  /\ pvt = NoPvt
  /\ lifetimes = NoObjects

NextHessenberg == Hessenberg

SpecHessenberg == InitHessenberg /\ [][NextHessenberg]_vars

-----------------------------------------------------------------------------
(* NAV::nearest and the mean of the angular rate in measurement_update.     *)
(* Positions in the buffer count from 0, as the distance from begin()       *)

\* int packets_for_mean(0x10)
packets_for_mean == 16

MaxBufferLen == 20

\* for(int i(distance(it_head, it_end)); i > group_size; i--, it_head++, it_eval++){
\*   if(it_eval->itow >= itow){break;}}  return it_head;
RECURSIVE nearest_loop(_, _, _, _, _, _)
nearest_loop(packets_time_series, itow, group_size, i, it_head, it_eval) ==
  IF i > group_size
  THEN IF packets_time_series[it_eval + 1].itow >= itow
       THEN it_head
       ELSE nearest_loop(packets_time_series, itow, group_size,
                         i - 1, it_head + 1, it_eval + 1)
  ELSE it_head

nearest_from_head(packets_time_series, itow, group_size) ==
  nearest_loop(packets_time_series, itow, group_size, Len(packets_time_series), 0, 0)

nearest(packets_time_series, itow, group_size) ==
  nearest_loop(packets_time_series, itow, group_size,
               Len(packets_time_series), 0, group_size \div 2)

\* for(; (i < packets_for_mean) && (it != recent_a.buf.end()); i++, it++){
\*   omega_b2i_4n += it->omega;}
RECURSIVE mean_loop(_, _, _, _)
mean_loop(buf, it, i, summed) ==
  IF i < packets_for_mean /\ it # Len(buf)
  THEN mean_loop(buf, it + 1, i + 1, Append(summed, it))
  ELSE [i |-> i, summed |-> summed]

\* measurement_update of a G packet with a lever arm, up to omega_b2i_4n /= i
LeverArmMean ==
  /\ mean_run.pc = "measurement_update"
  /\ \E it \in {nearest(mean_run.buf, mean_run.itow, packets_for_mean)} :
       \E sum \in {mean_loop(mean_run.buf, it, 0, << >>)} :
         mean_run' = [mean_run EXCEPT !.pc = "correct", !.it = it, !.i = sum.i,
                                      !.summed = sum.summed]
  /\ UNCHANGED << hessenberg_run, pvt, lifetimes >>
  /\ Numeric_unchanged

\* the positions whose samples decide where the window starts in a buffer of up to
\* MaxBufferLen samples, with room on both sides
EvalPositions == 6..13

\* the G packet comes when recent_a holds at least one sample (the filter is
\* initialized only from a non-empty buffer, which never shrinks); the samples
\* are earlier than the G packet (itow 0) or not (itow 1), in any order
InitMean ==
  /\ InitProgram
  /\ heap = [a \in Addresses |-> NoBlock]
  /\ matrices = [name \in MatrixNames |-> NoMatrix]
  /\ linked = {}
  /\ last_op = Operation("", "", "", 0, 0, 0)
  /\ n_writes = 0
  /\ hessenberg_run = NoRun
  /\ pvt = NoPvt
  /\ lifetimes = NoObjects
  /\ \E size \in 1..MaxBufferLen, late \in SUBSET EvalPositions :
       mean_run = [NoMean EXCEPT
                     !.pc = "measurement_update",
                     !.itow = 1,
                     !.buf = [n \in 1..size |->
                                [itow |-> IF (n - 1) \in late THEN 1 ELSE 0]]]

NextMean == LeverArmMean

SpecMean == InitMean /\ [][NextMean]_vars

-----------------------------------------------------------------------------
(* The lifetimes of the element buffers, of the Array2D_Dense objects that   *)
(* share them and of the Matrix objects that own an Array2D_Dense each.      *)
(* Buffers and Array2D_Dense objects are numbered in the order they are made *)
(* and a number is not used again; pointers are these numbers or NULL        *)

MaxBuffers == 2

MaxArrays == 4

ArrayNames == {"a", "a2"}

OwnerNames == {"m", "m2"}

\* values(new T[rows * columns]), ref(new int(1))
Array2D_Dense_constructor(o) ==
  LET values == Len(o.buffers) + 1
  IN  [o EXCEPT !.buffers = Append(@, [ref |-> 1, values_deleted |-> 0, ref_deleted |-> 0]),
                !.arrays = Append(@, [values |-> values, ref |-> values, destructed |-> 0])]

\* Array2D_Dense(const self_t &array): if(values = array.values){(*(ref = array.ref))++;}
\* ref is left as it is found in memory when array.values is NULL
Array2D_Dense_copy_constructor(o, array, uninitialized) ==
  LET values == o.arrays[array].values
      ref == o.arrays[array].ref
  IN  IF values # NULL
      THEN [o EXCEPT !.buffers[ref].ref = @ + 1,
                     !.arrays = Append(@, [values |-> values, ref |-> ref,
                                           destructed |-> 0])]
      ELSE [o EXCEPT !.arrays = Append(@, [values |-> NULL, ref |-> uninitialized,
                                           destructed |-> 0])]

\* delete ref; delete [] values;
Array2D_Dense_delete_buffer(o, this) ==
  LET values == o.arrays[this].values
      ref == o.arrays[this].ref
      ref_deleted == [o EXCEPT !.buffers[ref].ref_deleted = @ + 1]
  IN  IF values = NULL THEN ref_deleted
      ELSE [ref_deleted EXCEPT !.buffers[values].values_deleted = @ + 1]

\* a release that gives the buffer up while one other object still shares it
Array2D_Dense_release_early(o, this) ==
  LET ref == o.arrays[this].ref
  IN  IF ref = NULL THEN o
      ELSE LET decreased == [o EXCEPT !.buffers[ref].ref = @ - 1]
           IN  IF decreased.buffers[ref].ref <= 1
               THEN Array2D_Dense_delete_buffer(decreased, this)
               ELSE decreased

\* if(ref && ((--(*ref)) <= 0)){delete [] values; delete ref;}
Array2D_Dense_release(o, this) ==
  LET ref == o.arrays[this].ref
  IN  IF ref = NULL THEN o
      ELSE LET decreased == [o EXCEPT !.buffers[ref].ref = @ - 1]
           IN  IF decreased.buffers[ref].ref <= 0
               THEN Array2D_Dense_delete_buffer(decreased, this)
               ELSE decreased

\* ~Array2D_Dense()
Array2D_Dense_destructor(o, this) ==
  [Array2D_Dense_release(o, this) EXCEPT !.arrays[this].destructed = @ + 1]

\* Array2D_Dense::operator=(const self_t &array)
Array2D_Dense_operator_assign(o, this, array) ==
  IF this = array THEN o
  ELSE LET released == Array2D_Dense_release(o, this)
           values == released.arrays[array].values
           ref == released.arrays[array].ref
       IN  IF values # NULL
           THEN [released EXCEPT !.arrays[this].values = values,
                                 !.arrays[this].ref = ref,
                                 !.buffers[ref].ref = @ + 1]
           ELSE [released EXCEPT !.arrays[this].values = NULL]

\* Matrix(): storage(NULL)
Matrix_default_constructor(o, this) ==
  [o EXCEPT !.matrices[this] = [live |-> TRUE, storage |-> NULL]]

\* Matrix(rows, columns): storage(new storage_t(rows, columns))
Matrix_constructor(o, this) ==
  LET made == Array2D_Dense_constructor(o)
  IN  [made EXCEPT !.matrices[this] = [live |-> TRUE, storage |-> Len(made.arrays)]]

\* matrix.storage ? matrix.array2d()->storage_t::copy(false) : NULL, copy(false) being
\* new self_t(*this)
Matrix_shallow_copy(o, this, matrix, uninitialized) ==
  LET storage == o.matrices[matrix].storage
  IN  IF storage # NULL
      THEN LET made == Array2D_Dense_copy_constructor(o, storage, uninitialized)
           IN  [made EXCEPT !.matrices[this] = [live |-> TRUE, storage |-> Len(made.arrays)]]
      ELSE [o EXCEPT !.matrices[this] = [live |-> TRUE, storage |-> NULL]]

\* delete storage;
Matrix_delete_storage(o, this) ==
  IF o.matrices[this].storage = NULL THEN o
  ELSE Array2D_Dense_destructor(o, o.matrices[this].storage)

\* Matrix::operator=(const self_t &matrix)
Matrix_operator_assign(o, this, matrix, uninitialized) ==
  IF this = matrix THEN o
  ELSE Matrix_shallow_copy(Matrix_delete_storage(o, this), this, matrix, uninitialized)

\* ~Matrix(){delete storage;}
Matrix_destructor(o, this) ==
  [Matrix_delete_storage(o, this) EXCEPT !.matrices[this].live = FALSE]

\* what the member ref of a copy of the object array may hold where the copy
\* constructor does not set it (array = NULL: no object is copied)
Uninitialized(o, array) ==
  IF array = NULL \/ o.arrays[array].values # NULL THEN {NULL} ELSE 0..Len(o.buffers)

\* the statement `op` has made o of the objects
Done(o, op) ==
  /\ lifetimes' = [o EXCEPT !.op = op]
  /\ UNCHANGED << hessenberg_run, mean_run, pvt >>
  /\ Numeric_unchanged

\* Array2D_Dense<T> name(rows, columns);
ArrayConstruct(name) ==
  /\ lifetimes.stack[name] = NULL
  /\ Len(lifetimes.buffers) < MaxBuffers
  /\ Len(lifetimes.arrays) < MaxArrays
  /\ \E made \in {Array2D_Dense_constructor(lifetimes)} :
       Done([made EXCEPT !.stack[name] = Len(made.arrays)],
            << "Array2D_Dense", name, name >>)

\* Array2D_Dense<T> name(src);
ArrayCopyConstruct(name, src) ==
  /\ lifetimes.stack[name] = NULL
  /\ lifetimes.stack[src] # NULL
  /\ Len(lifetimes.arrays) < MaxArrays
  /\ \E uninitialized \in
          Uninitialized(lifetimes, lifetimes.stack[src]) :
       \E made \in {Array2D_Dense_copy_constructor(lifetimes, lifetimes.stack[src],
                                                   uninitialized)} :
         Done([made EXCEPT !.stack[name] = Len(made.arrays)],
              << "Array2D_Dense(array)", name, src >>)

\* name = src;
ArrayAssign(name, src) ==
  /\ lifetimes.stack[name] # NULL
  /\ lifetimes.stack[src] # NULL
  /\ Done(Array2D_Dense_operator_assign(lifetimes, lifetimes.stack[name],
                                        lifetimes.stack[src]),
          << "Array2D_Dense::operator=", name, src >>)

\* name goes out of scope
ArrayDestruct(name) ==
  /\ lifetimes.stack[name] # NULL
  /\ Done([Array2D_Dense_destructor(lifetimes, lifetimes.stack[name])
            EXCEPT !.stack[name] = NULL],
          << "~Array2D_Dense", name, name >>)

\* Matrix<T> name;
MatrixDefaultConstruct(name) ==
  /\ ~lifetimes.matrices[name].live
  /\ Done(Matrix_default_constructor(lifetimes, name), << "Matrix()", name, name >>)

\* Matrix<T> name(rows, columns);
MatrixConstruct(name) ==
  /\ ~lifetimes.matrices[name].live
  /\ Len(lifetimes.buffers) < MaxBuffers
  /\ Len(lifetimes.arrays) < MaxArrays
  /\ Done(Matrix_constructor(lifetimes, name), << "Matrix", name, name >>)

\* Matrix<T> name(src);
MatrixCopyConstruct(name, src) ==
  /\ ~lifetimes.matrices[name].live
  /\ lifetimes.matrices[src].live
  /\ Len(lifetimes.arrays) < MaxArrays
  /\ \E uninitialized \in Uninitialized(lifetimes, lifetimes.matrices[src].storage) :
       Done(Matrix_shallow_copy(lifetimes, name, src, uninitialized),
            << "Matrix(matrix)", name, src >>)

\* name = src; src with or without storage
MatrixAssign(name, src) ==
  /\ lifetimes.matrices[name].live
  /\ lifetimes.matrices[src].live
  /\ Len(lifetimes.arrays) < MaxArrays
  /\ \E uninitialized \in Uninitialized(lifetimes, lifetimes.matrices[src].storage) :
       Done(Matrix_operator_assign(lifetimes, name, src, uninitialized),
            << "Matrix::operator=", name, src >>)

\* name goes out of scope
MatrixDestruct(name) ==
  /\ lifetimes.matrices[name].live
  /\ Done(Matrix_destructor(lifetimes, name), << "~Matrix", name, name >>)

InitLifetimes ==
  /\ InitProgram
  /\ InitMatrix

NextLifetimes ==
  \/ \E name \in ArrayNames : ArrayConstruct(name)
  \/ \E name, src \in ArrayNames : ArrayCopyConstruct(name, src)
  \/ \E name, src \in ArrayNames : ArrayAssign(name, src)
  \/ \E name \in ArrayNames : ArrayDestruct(name)
  \/ \E name \in OwnerNames : MatrixDefaultConstruct(name)
  \/ \E name \in OwnerNames : MatrixConstruct(name)
  \/ \E name, src \in OwnerNames : MatrixCopyConstruct(name, src)
  \/ \E name, src \in OwnerNames : MatrixAssign(name, src)
  \/ \E name \in OwnerNames : MatrixDestruct(name)

SpecLifetimes == InitLifetimes /\ [][NextLifetimes]_vars

-----------------------------------------------------------------------------
(* GPS_SinglePositioning::solve_user_pvt.  The numbers are left out: a least *)
(* squares step raises or not, converges or not; a row of a geometric       *)
(* matrix is known by the satellite (PRN) it was computed for               *)

\* user_pvt_t::error_code
ERROR_NO == 0
ERROR_UNSOLVED == 1
ERROR_IONO_PARAMS_INVALID == 2
ERROR_INSUFFICIENT_SATELLITES == 3
ERROR_POSITION_LS == 4
ERROR_POSITION_NOT_CONVERGED == 5
ERROR_DOP == 6
ERROR_VELOCITY_LS == 7

MaxPrn == 5

Prns == 1..MaxPrn

\* for(...; i < 10; i++)
last_iteration == 10

\* the PRNs of the set prns as a list in ascending order
RECURSIVE prn_obs_t(_)
prn_obs_t(prns) ==
  IF prns = {} THEN << >>
  ELSE LET first == CHOOSE p \in prns : \A q \in prns : p <= q
       IN  << first >> \o prn_obs_t(prns \ {first})

\* the satellites of prn_range that are registered with an ephemeris valid at
\* receiver_time, in the order of prn_range
RECURSIVE available(_, _)
available(prn_range, sats) ==
  IF prn_range = << >> THEN << >>
  ELSE (IF Head(prn_range) \in sats THEN << Head(prn_range) >> ELSE << >>)
         \o available(Tail(prn_range), sats)

\* for(int i(good_init ? 0 : -3); ...
first_iteration_early(good_init) == IF good_init THEN 0 ELSE 0 - 3

\* for(int i(good_init ? 0 : -2); ...
first_iteration(good_init) == IF good_init THEN 0 ELSE 0 - 2

\* res.error_code = code; return res;
return(p, code) == [p EXCEPT !.pc = "return", !.error_code = code]

\* the position of the first entry of prn_rate for the satellite prn, from 0; -1
\* when there is none
RECURSIVE find_rate(_, _, _)
find_rate(prn_rate, prn, j) ==
  IF j >= Len(prn_rate) THEN 0 - 1
  ELSE IF prn_rate[j + 1] = prn THEN j
  ELSE find_rate(prn_rate, prn, j + 1)

\* check correspondence between range and rate: the pairs (i, j) of a position in
\* available_sat_pseudorange and the position in prn_rate of the same satellite
RECURSIVE index_table_t(_, _, _)
index_table_t(available_sat_pseudorange, prn_rate, i) ==
  IF i >= Len(available_sat_pseudorange) THEN << >>
  ELSE LET j == find_rate(prn_rate, available_sat_pseudorange[i + 1], 0)
       IN  (IF j >= 0 THEN << << i, j >> >> ELSE << >>)
             \o index_table_t(available_sat_pseudorange, prn_rate, i + 1)

\* geomat2.copy_G_W_row(geomat, i): the row `row` of another
copy_G_W_row(another, row) == another[row + 1]

\* the rows of geomat2: row i holds the G and W copied from geomat and the range
\* rate of prn_rate[i_rate], corrected by the velocity of the satellite at i_range
geomat2_rows(p, index_table) ==
  [i \in 1..Len(index_table) |->
     LET i_range == index_table[i][1]
         i_rate == index_table[i][2]
     IN  [sat |-> p.available_sat_pseudorange[i_range + 1],
          G_W |-> copy_G_W_row(p.geomat, i - 1),
          rate |-> p.prn_rate[i_rate + 1]]]

Pvt_unchanged ==
  /\ UNCHANGED << hessenberg_run, mean_run, lifetimes >>
  /\ Numeric_unchanged

\* solve_user_pvt up to the position calculation
SelectSatellites ==
  /\ pvt.pc = "call"
  /\ pvt' = IF ~pvt.is_valid_iono_utc
            THEN return(pvt, ERROR_IONO_PARAMS_INVALID)
            ELSE LET available_sat_range == available(pvt.prn_range, pvt.sats)
                 IN  IF Len(available_sat_range) < 4
                     THEN return([pvt EXCEPT !.available_sat_range = available_sat_range],
                                 ERROR_INSUFFICIENT_SATELLITES)
                     ELSE [pvt EXCEPT !.available_sat_range = available_sat_range,
                                      !.pc = "position",
                                      !.i = first_iteration(pvt.good_init)]
  /\ Pvt_unchanged

\* one round of the position calculation; the least squares step raises, converges
\* or leaves a step larger than 1E-6
PositionIteration(least_square) ==
  /\ pvt.pc = "position"
  /\ pvt.i < last_iteration
  /\ LET residuals ==
           [pvt EXCEPT !.geomat = pvt.available_sat_range,
                       !.available_sat_pseudorange =
                          IF pvt.i <= 0 THEN << >> ELSE pvt.available_sat_range,
                       !.iterations = @ + 1]
     IN  pvt' = IF least_square = "raised" THEN return(residuals, ERROR_POSITION_LS)
                ELSE IF least_square = "converged"
                THEN [residuals EXCEPT !.converged = TRUE, !.pc = "dop"]
                ELSE [residuals EXCEPT !.i = @ + 1]
  /\ Pvt_unchanged

\* the loop has ended without break
NotConverged ==
  /\ pvt.pc = "position"
  /\ pvt.i >= last_iteration
  /\ pvt' = return(pvt, ERROR_POSITION_NOT_CONVERGED)
  /\ Pvt_unchanged

\* Calculate DOP; the inversion raises or not
Dop(raised) ==
  /\ pvt.pc = "dop"
  /\ pvt' = IF raised THEN return([pvt EXCEPT !.dop = "raised"], ERROR_DOP)
            ELSE IF pvt.prn_range # << >> /\ pvt.with_velocity
            THEN [pvt EXCEPT !.dop = "done", !.pc = "velocity"]
            ELSE return([pvt EXCEPT !.dop = "done"], ERROR_NO)
  /\ Pvt_unchanged

\* Calculate velocity; the least squares step raises or not
Velocity(raised) ==
  /\ pvt.pc = "velocity"
  /\ \E index_table \in {index_table_t(pvt.available_sat_pseudorange, pvt.prn_rate, 0)} :
       \E rows \in {[pvt EXCEPT !.index_table = index_table,
                                !.geomat2 = geomat2_rows(pvt, index_table)]} :
         pvt' = IF raised THEN return([rows EXCEPT !.velocity = "raised"], ERROR_VELOCITY_LS)
                ELSE return([rows EXCEPT !.velocity = "done"], ERROR_NO)
  /\ Pvt_unchanged

\* the lists of pseudoranges and of range rates lack one satellite at most among
\* MaxPrn, and so do the satellites with a valid ephemeris
Observed == {Prns} \cup { Prns \ {prn} : prn \in Prns }

InitPvt ==
  /\ InitProgram
  /\ heap = [a \in Addresses |-> NoBlock]
  /\ matrices = [name \in MatrixNames |-> NoMatrix]
  /\ linked = {}
  /\ last_op = Operation("", "", "", 0, 0, 0)
  /\ n_writes = 0
  /\ hessenberg_run = NoRun
  /\ mean_run = NoMean
  /\ lifetimes = NoObjects
  /\ \E is_valid_iono_utc, good_init, with_velocity \in BOOLEAN,
        ranges \in Observed \cup { Prns \ {1, 2} }, rates \in Observed, sats \in Observed :
       pvt = [pc |-> "call", is_valid_iono_utc |-> is_valid_iono_utc, sats |-> sats,
              prn_range |-> prn_obs_t(ranges), prn_rate |-> prn_obs_t(rates),
              good_init |-> good_init, with_velocity |-> with_velocity,
              available_sat_range |-> << >>, available_sat_pseudorange |-> << >>,
              geomat |-> << >>, i |-> 0, iterations |-> 0, converged |-> FALSE,
              dop |-> "", velocity |-> "", index_table |-> << >>, geomat2 |-> << >>,
              error_code |-> ERROR_UNSOLVED]

NextPvt ==
  \/ SelectSatellites
  \/ \E least_square \in {"raised", "converged", "step"} : PositionIteration(least_square)
  \/ NotConverged
  \/ \E raised \in BOOLEAN : Dop(raised)
  \/ \E raised \in BOOLEAN : Velocity(raised)

SpecPvt == InitPvt /\ [][NextPvt]_vars

-----------------------------------------------------------------------------
(* Properties *)

Buffered == ins_gps_sync_strategy # "REALTIME"

HasCall(op) == \E i \in 1..Len(last.calls) : last.calls[i].op = op

Abs(x) == IF x < 0 THEN -x ELSE x

\* C1: in the OFFLINE and BACK_PROPAGATION modes no packet is applied to the
\* controller after a packet whose itow is later (one-week rollover aware),
\* whatever the order of arrival.
C1_AppliedInItowOrder ==
  [][(Buffered /\ applied' # applied /\ last.packet.type # "none")
       => interval_rollover(last.packet.itow, last'.packet.itow) >= 0]_vars

CountIn(pool, t) == Cardinality({i \in 1..Len(pool) : pool[i].itow = t})

InItowOrder(pool) ==
  \A i, j \in 1..Len(pool) : i < j => interval_rollover(pool[i].itow, pool[j].itow) >= 0

\* C2: every packet handed to buffer_t::update is in the pool or has been
\* applied once, never both nor twice; the destructor applies the whole pool,
\* sorted by itow, so that nothing is left at the end of the run; between two
\* update() calls the pool holds fewer packets than its limit (0x200).
C2_FlushedOnce ==
  /\ \A t \in Itows : delivered[t] = applied[t] + CountIn(packet_pool, t)
  /\ (pc = "flush") => (InItowOrder(packet_pool) /\ packets = Len(packet_pool))
  /\ (pc = "done") => (packet_pool = << >> /\ applied = delivered)
  /\ (pc = "loop" /\ packets = 0) => (Len(packet_pool) < PoolLimit)

\* C2: the destructor is about to apply a full remainder of the pool, which
\* spans two itows, after the pool has been sorted and partly applied before
C2_Witness ==
  /\ pc = "flush"
  /\ invoked > PoolLimit
  /\ packets = PoolLimit - 1
  /\ Len(packet_pool) = PoolLimit - 1
  /\ compare_rollover(packet_pool[1], packet_pool[Len(packet_pool)])

AdjustedInterval(deltaT) ==
  IF deltaT <= -(one_week \div 2) THEN deltaT + one_week ELSE deltaT

\* C3: nav.update is only called with an interval in (0, 10 s); an A packet
\* that comes, after initialization, at an interval (a week added when it is
\* at or below minus half a week) <= 0 or >= 10 s from the previous A packet
\* changes nothing in the filter, does not set TIME_UPDATED and emits nothing.
C3_TimeUpdateInterval ==
  /\ \A i \in 1..Len(last.calls) :
       (last.calls[i].op = "update")
         => (0 < last.calls[i].arg /\ last.calls[i].arg < INTERVAL_THRESHOLD)
  /\ (last.packet.type = "A" /\ status # UNINITIALIZED)
       => LET dT == AdjustedInterval(last.packet.itow
                                      - recent_a[Len(recent_a) - 1].itow)
          IN  (dT <= 0 \/ dT >= INTERVAL_THRESHOLD)
                => (last.calls = << >> /\ status # TIME_UPDATED /\ last.out = << >>)

\* C3: an A packet exactly 10 s after the previous one has been dropped
C3_Witness ==
  /\ last.packet.type = "A"
  /\ status = WAITING_UPDATE
  /\ dump_update
  /\ last.packet.itow - recent_a[Len(recent_a) - 1].itow = INTERVAL_THRESHOLD
  /\ last.calls = << >>

\* C4: a G packet with sigma_2d >= cont_acc_2d causes no call on the filter
\* (time update, correction, yaw correction, initialization) and no record,
\* before and after initialization.
C4_InaccurateFixRejected ==
  (last.packet.type = "G" /\ last.packet.sigma_2d >= cont_acc_2d)
    => /\ last.calls = << >>
       /\ last.out = << >>
       /\ status \in {UNINITIALIZED, WAITING_UPDATE}

\* C4: a fix with sigma_2d = cont_acc_2d has been rejected by an initialized
\* controller that holds magnetometer data and dumps corrections
C4_Witness ==
  /\ last.packet.type = "G"
  /\ last.packet.sigma_2d = cont_acc_2d
  /\ status = WAITING_UPDATE
  /\ recent_m # << >>
  /\ dump_correct

\* C5: the filter is initialized only by a G packet with sigma_2d <=
\* init_acc_2d, sigma_height <= init_acc_v and |recent_a.front().itow - itow| <
\* 0.1 * recent_a.size(); a G packet after which the controller is still
\* UNINITIALIZED has made no call on the filter and emitted nothing.
C5_InitializationGate ==
  /\ HasCall("initialize")
       => /\ last.packet.type = "G"
          /\ last.packet.sigma_2d <= init_acc_2d
          /\ last.packet.sigma_height <= init_acc_v
          /\ recent_a # << >>
          /\ 10 * Abs(recent_a[1].itow - last.packet.itow) < Len(recent_a)
  /\ (last.packet.type = "G" /\ status = UNINITIALIZED)
       => (last.calls = << >> /\ nav_time = NoTime /\ last.out = << >>)

\* C5: a fix in time with the oldest A packet and accurate in 2D, but just too
\* inaccurate in height, has left the controller UNINITIALIZED
C5_Witness ==
  /\ last.packet.type = "G"
  /\ status = UNINITIALIZED
  /\ Len(recent_a) >= MinAPackets
  /\ recent_a[1].itow = last.packet.itow
  /\ last.packet.sigma_2d = init_acc_2d
  /\ last.packet.sigma_height = init_acc_v + 1

\* new is old with x pushed at its end (the oldest element evicted or not)
Appended(old, new, x) ==
  /\ new # << >>
  /\ new[Len(new)] = x
  /\ LET front == SubSeq(new, 1, Len(new) - 1)
     IN  front = old \/ (old # << >> /\ front = Tail(old))

\* C6: an UNINITIALIZED controller stays so under A, M and T packets, which
\* only append to recent_a (A) or recent_m (M); as long as it is UNINITIALIZED
\* no call is made on the filter and no record is emitted; it leaves
\* UNINITIALIZED only on a G packet that passes the initialization gate.
C6_UninitializedUntilFix ==
  [][(status = UNINITIALIZED /\ applied' # applied)
       => /\ (last'.packet.type # "G") => (status' = UNINITIALIZED)
          /\ (status' = UNINITIALIZED)
               => (last'.calls = << >> /\ last'.out = << >> /\ nav_time' = NoTime)
          /\ (status' # UNINITIALIZED)
               => /\ last'.packet.sigma_2d <= init_acc_2d
                  /\ last'.packet.sigma_height <= init_acc_v
                  /\ recent_a # << >>
                  /\ 10 * Abs(recent_a[1].itow - last'.packet.itow) < Len(recent_a)
          /\ (last'.packet.type = "A")
               => (Appended(recent_a, recent_a', last'.packet) /\ recent_m' = recent_m)
          /\ (last'.packet.type = "M")
               => (Appended(recent_m, recent_m', last'.packet) /\ recent_a' = recent_a)
          /\ (last'.packet.type \in {"G", "T"})
               => (recent_a' = recent_a /\ recent_m' = recent_m)]_vars

\* C6: A, M and T packets have gone through a controller that is still
\* UNINITIALIZED
C6_Witness ==
  /\ status = UNINITIALIZED
  /\ Len(recent_a) >= MinAPackets
  /\ recent_m # << >>
  /\ last.packet.type = "T"
  /\ dump_update
  /\ dump_correct

RECURSIVE Advance(_, _)
Advance(calls, i) ==
  IF i > Len(calls) THEN 0 ELSE calls[i].arg + Advance(calls, i + 1)

\* C7 as stated: when a G packet initializes the filter, the time the filter
\* has reached at the end of the packet's processing is G.itow, and no A
\* packet later than G.itow is integrated.
C7_ReplayedUpToFix ==
  HasCall("initialize")
    => /\ nav_time = last.packet.itow
       /\ \A i \in 1..Len(last.calls) :
            (last.calls[i].op = "update")
              => interval_rollover(last.packet.itow, last.calls[i].itow) <= 0

\* C7 as amended: when a G packet initializes the filter, the filter is seeded
\* at G.itow and then integrates only buffered A packets later than G.itow, so
\* that the time it reaches is G.itow plus the intervals of those packets; it
\* is G.itow when the newest buffered A packet is not later than G.itow.  The
\* header is stamped MU with G.itow in every case.
C7_ReplayedFromFix ==
  HasCall("initialize")
    => /\ last.calls[1] = Call("initialize", 0, last.packet.itow)
       /\ \A i \in 2..Len(last.calls) :
            /\ last.calls[i].op = "update"
            /\ interval_rollover(last.packet.itow, last.calls[i].itow) > 0
            /\ \E k \in 1..Len(recent_a) : recent_a[k].itow = last.calls[i].itow
       /\ nav_time = (last.packet.itow + Advance(last.calls, 2)) % one_week
       /\ (interval_rollover(last.packet.itow, recent_a[Len(recent_a)].itow) <= 0)
            => (Len(last.calls) = 1 /\ nav_time = last.packet.itow)
       /\ header = [mode |-> "MU", itow |-> last.packet.itow]

\* C7: an initialization has integrated an A packet later than the G packet,
\* and the filter's time is no longer G.itow
C7_Witness ==
  /\ HasCall("initialize")
  /\ Len(last.calls) > 1
  /\ nav_time # last.packet.itow

\* C8: a command line that switches on both --back_propagate and --realtime
\* never gets to loop(): main() leaves before any packet is processed.
C8_ConflictRejected ==
  (switched_on = {"BACK_PROPAGATION", "REALTIME"}) => (pc # "loop")

\* C9: in the OFFLINE and BACK_PROPAGATION modes no record carries a time
\* stamp earlier (one-week rollover aware) than that of the record emitted
\* before it.
C9_StampsNonDecreasing ==
  (Buffered /\ last.out # << >>)
    => /\ (last_stamp = NoTime) \/ (interval_rollover(last_stamp, last.out[1].itow) >= 0)
       /\ \A i \in 1..(Len(last.out) - 1) :
            interval_rollover(last.out[i].itow, last.out[i + 1].itow) >= 0

\* C10: every record tagged MU is emitted for a G packet and carries that
\* packet's itow.
C10_MUCarriesFixItow ==
  \A i \in 1..Len(last.out) :
    (last.out[i].mode = "MU")
      => (last.packet.type = "G" /\ last.out[i].itow = last.packet.itow)

\* the snapshots that the loop of updated_items visits: those before the first
\* one at or beyond back_propagate_depth
Visited(snapshots) ==
  {i \in 1..Len(snapshots) : \A j \in 1..i : snapshots[j] < back_propagate_depth}

\* C11: in BACK_PROPAGATION mode records are emitted only for a G packet that
\* has left the status MEASUREMENT_UPDATED, never for an A packet alone nor for
\* an initialization; they are those of the snapshots before the first one
\* with elapsedT_from_last_correct >= back_propagate_depth, in order: the first
\* snapshot tagged BP_MU (if dump_correct), each later one BP_TU (if
\* dump_update), stamped with the newest A packet's itow plus its elapsed time.
C11_BackPropagatedRecords ==
  (ins_gps_sync_strategy = "BACK_PROPAGATION")
    => /\ (last.out # << >>) => (last.packet.type = "G" /\ status = MEASUREMENT_UPDATED)
       /\ (last.packet.type = "A") => (last.out = << >>)
       /\ HasCall("initialize") => (last.out = << >>)
       /\ LET kept == {i \in Visited(last.snapshots) : IF i = 1 THEN dump_correct
                                                        ELSE dump_update}
              nth(k) == IF 1 \in kept THEN k ELSE k + 1
          IN  /\ Len(last.out) = Cardinality(kept)
              /\ \A k \in 1..Len(last.out) :
                   /\ nth(k) \in kept
                   /\ last.out[k] =
                        [mode |-> IF nth(k) = 1 THEN "BP_MU" ELSE "BP_TU",
                         itow |-> recent_a[Len(recent_a)].itow + last.snapshots[nth(k)]]

\* C11: a correction has been applied with two snapshots, the second one at
\* back_propagate_depth: only the first is emitted, although updates are dumped
C11_Witness ==
  /\ ins_gps_sync_strategy = "BACK_PROPAGATION"
  /\ dump_update
  /\ dump_correct
  /\ status = MEASUREMENT_UPDATED
  /\ Len(last.snapshots) = MaxSnapshots
  /\ last.snapshots[1] < back_propagate_depth
  /\ last.snapshots[MaxSnapshots] >= back_propagate_depth
  /\ Len(last.out) = 1
  /\ last.out[1].mode = "BP_MU"

\* C12: outside back-propagation mode a record is emitted for an A packet iff
\* the packet has left the status TIME_UPDATED and dump_update is on, and for a
\* G packet iff it initialized or corrected the filter and dump_correct is on;
\* M and T packets emit nothing, and a packet emits at most one record, the
\* filter's state under its header.
C12_DumpFlagsIndependent ==
  (ins_gps_sync_strategy # "BACK_PROPAGATION")
    => /\ (last.packet.type = "A")
            => ((last.out # << >>) <=> (status = TIME_UPDATED /\ dump_update))
       /\ (last.packet.type = "G")
            => ((last.out # << >>)
                  <=> ((HasCall("initialize") \/ HasCall("correct")) /\ dump_correct))
       /\ (last.packet.type \in {"M", "T", "none"}) => (last.out = << >>)
       /\ (last.out # << >>) => (last.out = << header >>)

CountOf(seq, value) == Cardinality({i \in 1..Len(seq) : seq[i] = value})

CountCalls(calls, op) == Cardinality({i \in 1..Len(calls) : calls[i].op = op})

Pushed(old, new, max_size, x) ==
  new = IF Len(old) >= max_size THEN Tail(old) \o << x >> ELSE old \o << x >>

\* C14: recent_a never holds more than its capacity (0x100) and recent_m never
\* more than its capacity (0x10); an A packet is pushed behind the packets of
\* recent_a, an M packet behind those of recent_m, the oldest packet being
\* evicted exactly when the buffer is full, and no other packet changes the
\* buffers: each buffer holds the most recently pushed packets in arrival
\* order.
C14_BoundedFifo ==
  /\ recent_a = << >> /\ recent_m = << >>
  /\ [][/\ Len(recent_a') <= RecentAMax
         /\ Len(recent_m') <= RecentMMax
         /\ (applied' # applied)
              => /\ IF last'.packet.type = "A"
                    THEN Pushed(recent_a, recent_a', RecentAMax, last'.packet)
                    ELSE recent_a' = recent_a
                 /\ IF last'.packet.type = "M"
                    THEN Pushed(recent_m, recent_m', RecentMMax, last'.packet)
                    ELSE recent_m' = recent_m]_vars

\* C14: recent_a is full and the A packet of the week's last second, pushed
\* once, is no longer in it
C14_Witness ==
  /\ Len(recent_a) = RecentAMax
  /\ applied[one_week - 1] = 1
  /\ \A i \in 1..Len(recent_a) : recent_a[i].itow # one_week - 1
  /\ last.packet.type = "A"

\* the itow with which a packet is to be delivered, previous being the itow of
\* the packet of the same kind delivered before it
Deglitched(itow, previous) ==
  IF (itow - previous >= TicksPerSecond) /\ (itow - previous < 2 * TicksPerSecond)
  THEN itow - TicksPerSecond ELSE itow

\* C15: with reduce_1pps_sync_error on, a valid A page that follows a delivered
\* A packet is delivered as one A packet, with its itow less one second when
\* the itow is 1 s or more and less than 2 s behind the itow of the A packet
\* delivered before, and with its own itow otherwise; the same holds of the M
\* pages (when the magnetometer is used) against the M packet delivered
\* before; an A page leaves the M handler alone and an M page the A handler.
C15_GlitchReduction ==
  [][(invoked' # invoked /\ reduce_1pps_sync_error /\ page'.valid)
       => /\ (page'.type = "A" /\ a_handler.delivered)
               => /\ forwarded' = << Forwarded("A", Deglitched(page'.itow,
                                                                a_handler.packet_latest)) >>
                  /\ a_handler'.packet_latest = forwarded'[1].itow
          /\ (page'.type = "M" /\ m_handler.delivered /\ use_magnet)
               => /\ forwarded' = << Forwarded("M", Deglitched(page'.itow,
                                                                m_handler.packet_latest)) >>
                  /\ m_handler'.packet_latest = forwarded'[1].itow
          /\ (page'.type = "A") => (m_handler' = m_handler)
          /\ (page'.type = "M") => (a_handler' = a_handler)]_vars

\* C15: an M page one second behind the M packet before it has been delivered
\* a second earlier, while the A handler stands at another time
C15_Witness ==
  /\ reduce_1pps_sync_error
  /\ page.type = "M"
  /\ page.valid
  /\ forwarded = << Forwarded("M", page.itow - TicksPerSecond) >>
  /\ page.itow = 2 * TicksPerSecond
  /\ a_handler.delivered
  /\ a_handler.packet_latest # m_handler.packet_latest

C17_InitialAttitude ==
  HasCall("initialize")
    => /\ IF initial_attitude_mode >= YAW_ONLY
          THEN /\ last.attitude.yaw_from = "yaw_deg"
               /\ last.attitude.yaw_deg = initial_attitude_yaw_deg
          ELSE IF recent_m # << >>
          THEN last.attitude.yaw_from = "get_mag_yaw"
          ELSE last.attitude.yaw_from = "yaw_deg" /\ last.attitude.yaw_deg = 0
       /\ (last.attitude.pitch_from = "accel") <=> (initial_attitude_mode <= YAW_ONLY)
       /\ (last.attitude.roll_from = "accel") <=> (initial_attitude_mode < FULL_GIVEN)
       /\ last.attitude.pitch_from \in {"accel", "pitch_deg"}
       /\ last.attitude.roll_from \in {"accel", "roll_deg"}

\* C17: the filter has been initialized with the yaw of the user although
\* magnetometer data were at hand, and with estimated pitch and roll
C17_Witness ==
  /\ HasCall("initialize")
  /\ initial_attitude_mode = YAW_ONLY
  /\ recent_m # << >>
  /\ last.attitude = Attitude("yaw_deg", GivenYawDeg, "accel", "accel")

\* C18: when a matrix operation raises during a measurement update, the error
\* is recovered locally: the update is skipped, the remaining packets are
\* still processed (the program is in loop(), in the destructor of the buffer
\* or has returned 0) and the packet counts as applied
C18_MatrixExceptionRecovered ==
  last.raised =>
    /\ pc \in {"loop", "flush", "done"}
    /\ applied[last.packet.itow] > 0
    /\ status = MEASUREMENT_UPDATED

\* the G packets among the packets handed on for the latest page
ForwardedG(packets_out) ==
  { i \in 1..Len(packets_out) : packets_out[i].type = "G" }

\* C19: G packets are forwarded inside the configured GPS time window only.
\* A G packet is handed on only by a page of the receiver, when a NAV-SOL with
\* a valid week number has been seen (the time stamp status is BEFORE_START or
\* IN_RANGE), the start time has been reached (the status is IN_RANGE, or the
\* packet is not before the start) and the packet is not past the end; the
\* status is IN_RANGE afterwards.  The status INVALID is left by a valid
\* NAV-SOL with a valid week number only.  A G packet that is tested against
\* the end and lies past it is not handed on and makes the status AFTER_END;
\* with the status AFTER_END process_1page has returned false, so that no
\* page is processed any more: the status stays, and the page that caused it
\* is the last one.
C19_GpsTimeWindow ==
  /\ []((g_handler.time_stamp = "TIME_STAMP_AFTER_END")
          => (~in_good /\ page.type = "G" /\ ForwardedG(forwarded) = {}
              /\ g_handler.packet_latest > end_gpst))
  /\ [](~in_good => ~(ENABLED (\E observer \in Pages : process_1page(observer))))
  /\ [][/\ \A i \in ForwardedG(forwarded') :
             /\ page'.type = "G"
             /\ page'.valid
             /\ g_handler.time_stamp \in {"TIME_STAMP_BEFORE_START", "TIME_STAMP_IN_RANGE"}
             /\ g_handler.week_number # WN_INVALID
             /\ (g_handler.time_stamp = "TIME_STAMP_BEFORE_START")
                  => (forwarded'[i].itow >= start_gpst)
             /\ forwarded'[i].itow <= end_gpst
             /\ g_handler'.time_stamp = "TIME_STAMP_IN_RANGE"
        /\ (g_handler.time_stamp = "TIME_STAMP_INVALID"
            /\ g_handler'.time_stamp # "TIME_STAMP_INVALID")
             => (page' = Observer("G", TRUE, "NAV-SOL", page'.itow, page'.week)
                 /\ page'.week # WN_INVALID
                 /\ g_handler'.time_stamp = "TIME_STAMP_BEFORE_START")
        /\ (g_handler.time_stamp = "TIME_STAMP_AFTER_END")
             => (g_handler' = g_handler /\ invoked' = invoked)]_vars

\* C19: after A packets have gone to the controller, a G packet past the end
\* of the window has been dropped and has ended the processing before the
\* last page of the log
C19_Witness ==
  /\ g_handler.time_stamp = "TIME_STAMP_AFTER_END"
  /\ ~in_good
  /\ page.type = "G"
  /\ forwarded = << >>
  /\ g_handler.packet_latest > end_gpst
  /\ a_handler.delivered
  /\ invoked < MaxPages

\* the element (row, column) of the object called name, in the heap h
Element(h, objects, name, row, column) == Matrix_at(h, objects[name], row, column)

RowsOf(h, objects, name) == 0..(Matrix_rows(h, objects[name]) - 1)

ColumnsOf(h, objects, name) == 0..(Matrix_columns(h, objects[name]) - 1)

\* C20: an object made by copy construction, by assignment, by transpose() or
\* by partial() is linked to its original: it shows the elements of the
\* original (as they are, transposed, or from the offsets on), and a write
\* through any object is seen, at the element of the same place in the
\* storage, through every object linked to it.  An object made by copy() has
\* no view, shows the elements its original showed and is linked to nothing:
\* a write is seen through the objects linked to the written one only, and no
\* other operation changes an element of an object that stays in scope.
C20_ShallowAndDeepCopies ==
  [][LET o == last_op'
     IN  /\ (o.name \in {"copy_constructor", "operator=", "transpose", "partial"})
              => /\ {o.dst, o.src} \in linked'
                 /\ \A other \in Links(o.src) \ {o.dst} : {o.dst, other} \in linked'
                 /\ \A row \in RowsOf(heap', matrices', o.dst),
                       column \in ColumnsOf(heap', matrices', o.dst) :
                      Element(heap', matrices', o.dst, row, column)
                        = IF o.name = "transpose"
                          THEN Element(heap', matrices', o.src, column, row)
                          ELSE Element(heap', matrices', o.src, row + o.row,
                                       column + o.column)
                 /\ (o.name \in {"copy_constructor", "operator="})
                      => /\ RowsOf(heap', matrices', o.dst) = RowsOf(heap', matrices', o.src)
                         /\ ColumnsOf(heap', matrices', o.dst)
                              = ColumnsOf(heap', matrices', o.src)
                 /\ (o.name = "transpose")
                      => /\ RowsOf(heap', matrices', o.dst)
                              = ColumnsOf(heap', matrices', o.src)
                         /\ ColumnsOf(heap', matrices', o.dst)
                              = RowsOf(heap', matrices', o.src)
         /\ (o.name = "copy")
              => /\ \A other \in MatrixNames : {o.dst, other} \notin linked'
                 /\ matrices'[o.dst].view = "MatrixView"
                 /\ RowsOf(heap', matrices', o.dst) = RowsOf(heap, matrices, o.src)
                 /\ ColumnsOf(heap', matrices', o.dst) = ColumnsOf(heap, matrices, o.src)
                 /\ \A row \in RowsOf(heap', matrices', o.dst),
                       column \in ColumnsOf(heap', matrices', o.dst) :
                      Element(heap', matrices', o.dst, row, column)
                        = Element(heap, matrices, o.src, row, column)
         /\ \A name \in MatrixNames :
              (matrices[name] # NoMatrix /\ matrices'[name] # NoMatrix
               /\ ~(o.name # "write" /\ o.dst = name))
                => \A row \in RowsOf(heap, matrices, name),
                      column \in ColumnsOf(heap, matrices, name) :
                     Element(heap', matrices', name, row, column)
                       = IF /\ o.name = "write"
                            /\ (name = o.dst \/ {name, o.dst} \in linked)
                            /\ view_i(matrices[name], row, column)
                                 = view_i(matrices[o.dst], o.row, o.column)
                            /\ view_j(matrices[name], row, column)
                                 = view_j(matrices[o.dst], o.row, o.column)
                         THEN o.value
                         ELSE Element(heap, matrices, name, row, column)]_vars

\* C20: the second write, of 0 over a 1 of m, is seen through the transposed
\* m2 linked to m and not through m3, which is not linked to them and still
\* shows the 1
C20_Witness ==
  /\ last_op = Operation("write", "m", "m", 0, 1, 0)
  /\ n_writes = 2
  /\ matrices["m"].view = "MatrixView"
  /\ matrices["m2"].view = "MatrixViewTranspose"
  /\ {"m", "m2"} \in linked
  /\ matrices["m3"].view = "MatrixView"
  /\ {"m", "m3"} \notin linked
  /\ {"m2", "m3"} \notin linked
  /\ Element(heap, matrices, "m2", 1, 0) = 0
  /\ Element(heap, matrices, "m3", 0, 1) = 1

Product(a, b, order) ==
  LET RECURSIVE Sum(_, _, _)
      Sum(row, column, k) ==
        IF k = order THEN 0
        ELSE (Field_mul(a[<< row, k >>], b[<< k, column >>]) + Sum(row, column, k + 1))
               % Cardinality(Field)
  IN  [c \in IndexPairs(order, order) |-> Sum(c[1], c[2], 0)]

\* the determinant of a square matrix over the field, by the formula of Leibniz
Determinant(a, order) ==
  LET index == 0..(order - 1)
      permutations == { f \in [index -> index] : \A i, j \in index : f[i] = f[j] => i = j }
      inversions(f) == Cardinality({ c \in index \X index : c[1] < c[2] /\ f[c[1]] > f[c[2]] })
      RECURSIVE Term(_, _)
      Term(f, i) == IF i = order THEN 1 ELSE Field_mul(a[<< i, f[i] >>], Term(f, i + 1))
      Signed(f) == IF inversions(f) % 2 = 0 THEN Term(f, 0) ELSE Field_sub(0, Term(f, 0))
      RECURSIVE Sum(_)
      Sum(set) == IF set = {} THEN 0
                  ELSE LET f == CHOOSE g \in set : TRUE
                       IN  (Signed(f) + Sum(set \ {f})) % Cardinality(Field)
  IN  Sum(permutations)

\* C22: inverse() raises MatrixException when the matrix is not square; for a
\* square matrix it raises exactly when at some elimination step i the pivot
\* (i, i) is zero and no row below i has a non-zero entry in column i, that is
\* when the matrix is singular, and otherwise returns the inverse; whether it
\* raises or returns, the matrix it was called on is left unchanged.
C22_InverseRaises ==
  [][(last_op'.name = "inverse")
       => LET o == last_op'.outcome
              mat == matrices[last_op'.src]
              n == Matrix_rows(heap, mat)
              A == Matrix_elements(heap, mat)
          IN  /\ Matrix_elements(heap', matrices'[last_op'.src]) = A
              /\ (n # Matrix_columns(heap, mat)) => o.raised
              /\ (n = Matrix_columns(heap, mat))
                   => /\ o.raised
                           => /\ o.step \in 0..(n - 1)
                              /\ \A i2 \in o.step..(n - 1) : o.left[<< i2, o.step >>] = 0
                              /\ matrices' = matrices
                              /\ heap' = heap
                      /\ o.raised <=> (Determinant(A, n) = 0)
                      /\ ~o.raised
                           => /\ Product(A, o.right, n) = getI(n)
                              /\ Matrix_elements(heap', matrices'[last_op'.dst]) = o.right]_vars

\* C22: a matrix of order 2 whose first pivot is zero and was found in the
\* second row has raised at the second step
C22_Witness ==
  /\ last_op.name = "inverse"
  /\ last_op.outcome.raised
  /\ last_op.outcome.step = 1
  /\ Element(heap, matrices, "m", 0, 0) = 0
  /\ Element(heap, matrices, "m", 1, 0) # 0
  /\ matrices["m2"] = NoMatrix

-----------------------------------------------------------------------------
\* C23: for every square matrix of one row or more, hessenberg() reads and writes
\* only elements inside its matrices, what it returns has a zero in every entry
\* (i, j) with i > j + 1, and for one and two rows no Householder step runs.
C23_HessenbergInRange ==
  /\ hessenberg_run.pc # "undefined"
  /\ hessenberg_run.pc = "return" =>
       \A i, j \in 0..(hessenberg_run.order - 1) :
         i > j + 1 => << i, j >> \in hessenberg_run.zeros
  /\ hessenberg_run.order \in {1, 2} => hessenberg_run.steps = 0

-----------------------------------------------------------------------------
\* the start of the first window of packets_for_mean samples of buf whose sample at
\* offset packets_for_mean / 2 is not earlier than itow, or of the last window
FirstWindow(buf, itow) ==
  LET last_window == Len(buf) - packets_for_mean
      found == { w \in 0..last_window :
                   buf[w + (packets_for_mean \div 2) + 1].itow >= itow }
  IN  IF found = {} THEN last_window
      ELSE CHOOSE w \in found : \A v \in found : w <= v

\* C24: the angular rate for a G packet with a lever arm is the mean of consecutive
\* samples inside the A buffer: the window of nearest() ends within the buffer, a
\* buffer of 16 samples or more gives exactly 16, starting at the first window whose
\* sample at offset 8 is not earlier than the G packet (the last 16 if there is
\* none), and the divisor is the number of samples summed and never 0.
C24_MeanWindow ==
  mean_run.pc = "correct" =>
    LET size == Len(mean_run.buf)
        count == IF size < packets_for_mean THEN size ELSE packets_for_mean
    IN  /\ mean_run.it + count <= size
        /\ mean_run.i = count
        /\ mean_run.i > 0
        /\ mean_run.summed = [n \in 1..count |-> mean_run.it + n - 1]
        /\ size >= packets_for_mean =>
             mean_run.it = FirstWindow(mean_run.buf, mean_run.itow)

\* a buffer of more than 16 samples whose window starts neither at the first nor at
\* the last position
C24_Witness ==
  /\ mean_run.pc = "correct"
  /\ Len(mean_run.buf) = MaxBufferLen
  /\ mean_run.it \in 1..(MaxBufferLen - packets_for_mean - 1)
  /\ mean_run.i = packets_for_mean

-----------------------------------------------------------------------------
\* the Array2D_Dense objects that are alive: those in scope and those owned by a
\* Matrix in scope
LiveArrays ==
  ({ lifetimes.stack[name] : name \in ArrayNames }
     \cup { lifetimes.matrices[name].storage :
              name \in { n \in OwnerNames : lifetimes.matrices[n].live } }) \ {NULL}

Handles(buffer) == { array \in LiveArrays : lifetimes.arrays[array].values = buffer }

-----------------------------------------------------------------------------
\* the sum of the intervals passed to nav.update by the calls of one packet
RECURSIVE Integrated(_)
Integrated(calls) ==
  IF calls = << >> THEN 0
  ELSE (IF Head(calls).op = "update" THEN Head(calls).arg ELSE 0) + Integrated(Tail(calls))

\* C26: in OFFLINE mode each stretch of time is integrated once: when an A packet is
\* applied right after a G packet that was applied to the initialized filter with an
\* itow after the previous A packet's and not after this one's, and the two A packets
\* are less than INTERVAL_THRESHOLD apart, the intervals passed to the filter's time
\* update by the G packet and by the A packet add up to the difference of the itows
\* of the two A packets.
C26_IntegratedOnce ==
  [][(/\ ins_gps_sync_strategy = "OFFLINE"
      /\ applied' # applied
      /\ last'.packet.type = "A"
      /\ last.packet.type = "G"
      /\ \E i \in 1..Len(last.calls) : last.calls[i].op = "correct"
      /\ recent_a # << >>
      /\ interval(recent_a[Len(recent_a)].itow, last.packet.itow) > 0
      /\ interval(last.packet.itow, last'.packet.itow) >= 0
      /\ interval(recent_a[Len(recent_a)].itow, last'.packet.itow) < INTERVAL_THRESHOLD)
     => Integrated(last.calls) + Integrated(last'.calls)
          = interval(recent_a[Len(recent_a)].itow, last'.packet.itow)]_vars

-----------------------------------------------------------------------------
\* C27: the G handler hands a G packet on only for a NAV-POSLLH or NAV-VELNED message
\* that completes a pair of one itow; a NAV-STATUS, NAV-SOL or NAV-TIMEGPS message
\* never causes a G packet to be delivered or delivered again.
C27_OnlyPairsDeliverG ==
  (page.type = "G" /\ page.valid /\ page.mid \in {"NAV-STATUS", "NAV-SOL", "NAV-TIMEGPS"})
    => ForwardedG(forwarded) = {}

-----------------------------------------------------------------------------
\* C28: an M packet applied to the initialized filter is pushed onto recent_m and no
\* more: the filter is not called and keeps its time, recent_a stays as it is, the
\* status becomes WAITING_UPDATE and no record is written; and the yaw is corrected
\* only by a G packet that is accepted for the measurement update.
C28_CompassOnlyBuffers ==
  [][/\ (/\ applied' # applied
         /\ last'.packet.type = "M"
         /\ status >= JUST_INITIALIZED)
        => /\ Pushed(recent_m, recent_m', RecentMMax, last'.packet)
           /\ last'.calls = << >>
           /\ nav_time' = nav_time
           /\ recent_a' = recent_a
           /\ status' = WAITING_UPDATE
           /\ last'.out = << >>
     /\ (/\ applied' # applied
         /\ \E i \in 1..Len(last'.calls) : last'.calls[i].op = "correct_yaw")
        => /\ last'.packet.type = "G"
           /\ \E i \in 1..Len(last'.calls) : last'.calls[i].op = "correct"]_vars

\* the last of MaxPackets packets is an M packet applied to the initialized filter,
\* with which recent_m is full
C28_Witness ==
  /\ last.packet.type = "M"
  /\ status = WAITING_UPDATE
  /\ nav_time # NoTime
  /\ Len(recent_m) = RecentMMax
  /\ applied[0] + applied[1] = MaxPackets

-----------------------------------------------------------------------------
\* C29: solve_user_pvt returns ERROR_IONO_PARAMS_INVALID when the ionospheric and UTC
\* parameters are invalid; otherwise ERROR_INSUFFICIENT_SATELLITES when fewer than 4
\* of the given PRNs have a satellite with a valid ephemeris; ERROR_NO only when the
\* position has converged within 10 rounds (12 without a good initial guess), the DOP
\* was computed and, if the velocity was asked for, its least squares step succeeded;
\* and never ERROR_UNSOLVED.
C29_ErrorCodePrecedence ==
  pvt.pc = "return" =>
    LET usable == { k \in 1..Len(pvt.prn_range) : pvt.prn_range[k] \in pvt.sats }
    IN  /\ pvt.error_code \in (ERROR_NO..ERROR_VELOCITY_LS) \ {ERROR_UNSOLVED}
        /\ ~pvt.is_valid_iono_utc <=> pvt.error_code = ERROR_IONO_PARAMS_INVALID
        /\ (pvt.is_valid_iono_utc /\ Cardinality(usable) < 4)
             <=> pvt.error_code = ERROR_INSUFFICIENT_SATELLITES
        /\ pvt.error_code = ERROR_NO =>
             /\ pvt.converged
             /\ pvt.iterations <= (IF pvt.good_init THEN 10 ELSE 12)
             /\ pvt.dop = "done"
             /\ pvt.with_velocity => pvt.velocity = "done"

\* the position converged in the last of the 12 rounds and the velocity was solved
C29_Witness ==
  /\ pvt.pc = "return"
  /\ pvt.error_code = ERROR_NO
  /\ pvt.iterations = 12
  /\ pvt.velocity = "done"

\* C30: in the velocity step each row of geomat2 holds, for a satellite with a
\* pseudorange and a range rate, the design-matrix row and the weight computed for
\* that satellite in the position step and the range rate of that satellite,
\* whichever satellites have a range rate.
C30_VelocityRowsOfSameSatellite ==
  (pvt.pc = "return" /\ pvt.velocity # "") =>
    \A i \in 1..Len(pvt.geomat2) :
      /\ pvt.geomat2[i].rate = pvt.geomat2[i].sat
      /\ pvt.geomat2[i].G_W = pvt.geomat2[i].sat

=============================================================================
